---- MODULE Spec2Model ----
(***************************************************************************)
(* A model of the devstats reconciliation engine of src/ghapi.go:          *)
(* SyncIssuesState (normalizer, orchestrator, issue and PR workers, the    *)
(* divergence detector) and the two snapshot writers ArtificialEvent and   *)
(* ArtificialPREvent, over a relational store with uniqueness keys.        *)
(*                                                                         *)
(* Conventions.                                                            *)
(*  - A time.Time is a number of ticks; TicksPerSec ticks make one second, *)
(*    so two different times can fall in the same second.                  *)
(*  - A nil pointer / SQL NULL is NULL (ids and times are >= 0).           *)
(*  - A comma-joined id list ("1,2") is the sequence of its ids <<1, 2>>.  *)
(*  - TLC's integers are 32 bits wide, so the synthetic offset 2^48 of the *)
(*    source is scaled to SyntheticOffset; the model uses of it only what  *)
(*    the code uses: addition to a real id and the comparison id > offset. *)
(*    Real event ids stay below it, as the source's ids stay below 2^48.   *)
(***************************************************************************)
EXTENDS Integers, Sequences, FiniteSets, TLC

\* ------------------------------------------------------------- bounds
\* Times are the ticks 0..MaxTick.
MaxTick == 2
\* Ticks per second: the sub-second resolution of a time.
TicksPerSec == 2
\* Real event ids of candidates are 0..MaxEventID.
MaxEventID == 2
\* Reconciliation runs per behaviour.
MaxRuns == 2
\* The thread counts GetThreadsNum may return are 1..MaxThreads.
MaxThreads == 2
\* The candidate lists given to the normalizer have up to MaxCands entries.
MaxCands == 3

\* ---------------------------------------------------------- constants
NULL == -1
SyntheticOffset == 16

Times == 0 .. MaxTick
EventIDs == 0 .. MaxEventID

\* The YYYY-MM-DD HH:MM:SS string of a time: the time cut to its second.
\* Strings of this format sort as their seconds do.
ToYMDHMSDate(t) == t \div TicksPerSec

\* A comparison that reads a nil on either side as no change.
NilAsUnchanged(api, gha) == api # NULL /\ gha # NULL /\ api # gha

\* Three-valued comparison of two nullable values (both nil: equal, one
\* nil: different, both set: by value).
ChangedNullable(api, gha) ==
    \/ (api = NULL /\ gha # NULL)
    \/ (api # NULL /\ gha = NULL)
    \/ (api # NULL /\ gha # NULL /\ api # gha)

\* The same for two nullable times, compared by their formatted strings.
ChangedNullableTime(api, gha) ==
    \/ (api = NULL /\ gha # NULL)
    \/ (api # NULL /\ gha = NULL)
    \/ (api # NULL /\ gha # NULL /\ ToYMDHMSDate(api) # ToYMDHMSDate(gha))

\* ------------------------------------------------------ small helpers
Max(S) == CHOOSE x \in S : \A y \in S : y <= x
Min(S) == CHOOSE x \in S : \A y \in S : x <= y

RECURSIVE SortedSeq(_)
\* The ascending sequence of a finite set of integers.
SortedSeq(S) == IF S = {} THEN << >>
                ELSE << Min(S) >> \o SortedSeq(S \ {Min(S)})

Range(s) == { s[i] : i \in DOMAIN s }

\* ------------------------------------------------------------ the store
Tables == { "issues", "prs", "events", "payloads", "milestones", "actors",
            "issues_labels", "issues_assignees", "prs_assignees",
            "prs_reviewers" }

EmptyDB == [ t \in Tables |-> {} ]

\* The uniqueness key of a row of each table.
Key(tbl, row) ==
    CASE tbl = "issues" -> << row.id, row.event_id >>
      [] tbl = "prs" -> << row.id, row.event_id >>
      [] tbl = "events" -> << row.id >>
      [] tbl = "payloads" -> << row.event_id >>
      [] tbl = "milestones" -> << row.id, row.event_id >>
      [] tbl = "actors" -> << row.id >>
      [] tbl = "issues_labels" -> << row.issue_id, row.event_id, row.label_id >>
      [] tbl = "issues_assignees" -> << row.issue_id, row.event_id, row.assignee_id >>
      [] tbl = "prs_assignees" -> << row.pull_request_id, row.event_id, row.assignee_id >>
      [] tbl = "prs_reviewers" -> << row.pull_request_id, row.event_id, row.requested_reviewer_id >>

HasKey(db, tbl, row) == \E r \in db[tbl] : Key(tbl, r) = Key(tbl, row)

\* Statements of a writer transaction.
Insert(tbl, row) == [ op |-> "insert", tbl |-> tbl, row |-> row ]
InsertIgnore(tbl, row) == [ op |-> "insert_ignore", tbl |-> tbl, row |-> row ]
\* An update that unlinks the payload of the event id before eid.
UnlinkPayloadBefore(prid, iid, eid) ==
    [ op |-> "update", tbl |-> "payloads",
      row |-> [ pull_request_id |-> NULL, issue_id |-> iid, event_id |-> eid - 1 ] ]

\* An update whose condition no payload row meets.
UpdateNoPayload(prid, iid, eid) ==
    [ op |-> "update", tbl |-> "payloads",
      row |-> [ pull_request_id |-> prid, issue_id |-> NULL, event_id |-> eid ] ]

\* "update gha_payloads set pull_request_id = prid where issue_id = iid and
\* event_id = eid".
UpdatePayload(prid, iid, eid) ==
    [ op |-> "update", tbl |-> "payloads",
      row |-> [ pull_request_id |-> prid, issue_id |-> iid, event_id |-> eid ] ]

\* A nil pointer dereferenced while the statement's arguments are built.
Panic == [ op |-> "panic", tbl |-> "none", row |-> [ id |-> NULL ] ]

\* A statement whose row takes the place of the row of its key.
Upsert(db, s) ==
    [ ok |-> TRUE,
      db |-> [ db EXCEPT ![s.tbl] =
                 { r \in @ : Key(s.tbl, r) # Key(s.tbl, s.row) } \cup { s.row } ] ]

\* One statement on a database: the database after it, and whether the
\* call returned (a plain insert of an existing key is a driver error, which
\* ExecSQLTxWithErr turns into a fatal error, as a panic is).
ExecSQLTx(db, s) ==
    CASE s.op = "insert" ->
           IF HasKey(db, s.tbl, s.row)
           THEN [ ok |-> FALSE, db |-> db ]
           ELSE [ ok |-> TRUE, db |-> [ db EXCEPT ![s.tbl] = @ \cup { s.row } ] ]
      [] s.op = "insert_ignore" ->
           IF HasKey(db, s.tbl, s.row)
           THEN [ ok |-> TRUE, db |-> db ]
           ELSE [ ok |-> TRUE, db |-> [ db EXCEPT ![s.tbl] = @ \cup { s.row } ] ]
      [] s.op = "panic" -> [ ok |-> FALSE, db |-> db ]
      [] s.op = "update" ->
           [ ok |-> TRUE,
             db |-> [ db EXCEPT !.payloads =
                        { IF r.issue_id = s.row.issue_id /\ r.event_id = s.row.event_id
                          THEN [ r EXCEPT !.pull_request_id = s.row.pull_request_id ]
                          ELSE r : r \in @ } ] ]

RECURSIVE ExecAll(_, _)
\* The statements of a transaction in order, stopping at the first failure:
\* whether all returned, the database after them, and how many returned.
ExecAll(db, stmts) ==
    IF stmts = << >> THEN [ ok |-> TRUE, db |-> db, n |-> 0 ]
    ELSE CHOOSE res \in
           { IF r.ok
             THEN CHOOSE x \in { [ ok |-> q.ok, db |-> q.db, n |-> q.n + 1 ] :
                                   q \in { ExecAll(r.db, Tail(stmts)) } } : TRUE
             ELSE [ ok |-> FALSE, db |-> r.db, n |-> 0 ] :
             r \in { ExecSQLTx(db, Head(stmts)) } } : TRUE

\* ------------------------------------------------------- remote objects
\* github.User values are their ids; every user of the model has a login.
Users == { 1, 2 }
Login(u) == IF u = 1 THEN "alice" ELSE "bob"

\* The hide-set of the GDPR configuration and the redaction mapper.
HideSet == { "bob" }
\* A mapper that hides nothing.
Verbatim(login) == login
MaybeHide(login) == IF login \in HideSet THEN "anon" ELSE login

ghActorIDOrNil(actPtr) == actPtr

ghActorLoginOrNil(actPtr) ==
    IF actPtr = NULL THEN "" ELSE MaybeHide(Login(actPtr))

ghMilestoneIDOrNil(milPtr) == milPtr

\* The creator of a milestone object.
MilestoneCreator(m) == 1

\* Inserts a single GitHub user: nothing for a nil user.
ghActor(actor) ==
    IF actor = NULL THEN << >>
    ELSE << InsertIgnore("actors", [ id |-> actor, login |-> MaybeHide(Login(actor)) ]) >>

RECURSIVE ghActors(_)
ghActors(users) ==
    IF users = << >> THEN << >>
    ELSE ghActor(Head(users)) \o ghActors(Tail(users))

\* Inserts the milestone of the candidate's issue object under event eid;
\* the issue object's milestone is dereferenced without a nil check.
ghMilestone(eid, ic) ==
    IF ic.GhIssue.Milestone = NULL THEN << Panic >>
    ELSE << InsertIgnore("milestones",
              [ id |-> ic.MilestoneID, event_id |-> eid,
                creator_id |-> ghActorIDOrNil(MilestoneCreator(ic.GhIssue.Milestone)),
                dup_actor_login |-> MaybeHide(Login(ic.GhEvent.Actor)),
                dupn_creator_login |->
                    ghActorLoginOrNil(MilestoneCreator(ic.GhIssue.Milestone)) ]) >>

\* ---------------------------------------------------------- candidates
\* The content of an issue as the API reports it.
IssueContent(state, title, locked, closedAt, milestone, assignee, labels, assignees) ==
    [ state |-> state, title |-> title, locked |-> locked, closedAt |-> closedAt,
      milestone |-> milestone, assignee |-> assignee, labels |-> labels,
      assignees |-> assignees ]

\* The actor of an event: the events of the model are made by the two
\* users in turn.
EventActor(eventID) == 1 + (eventID % 2)

\* An IssueConfig as the harvester builds it from an issue object and one
\* of its events: the id lists are in canonical form and the ids repeat
\* those of the issue object.
IssueConfig(iid, createdAt, eventID, c) ==
    [ IssueID |-> iid, CreatedAt |-> createdAt, EventID |-> eventID,
      EventType |-> "sync",
      MilestoneID |-> c.milestone, AssigneeID |-> c.assignee,
      Labels |-> SortedSeq(c.labels), LabelsMap |-> c.labels,
      Assignees |-> SortedSeq(c.assignees), AssigneesMap |-> c.assignees,
      GhIssue |-> [ ID |-> iid, State |-> c.state, Title |-> c.title,
                    Locked |-> c.locked, ClosedAt |-> c.closedAt,
                    Milestone |-> c.milestone, Assignee |-> c.assignee,
                    User |-> 1, Assignees |-> SortedSeq(c.assignees) ],
      GhEvent |-> [ Actor |-> EventActor(eventID) ] ]

\* The content of a pull request as the API reports it (merged: NULL, 0
\* for false, 1 for true).
PRContent(state, title, closedAt, merged, mergedAt, mergedBy, milestone, assignee, assignees, reviewers) ==
    [ state |-> state, title |-> title, closedAt |-> closedAt, merged |-> merged,
      mergedAt |-> mergedAt, mergedBy |-> mergedBy, milestone |-> milestone,
      assignee |-> assignee, assignees |-> assignees, reviewers |-> reviewers ]

\* A github.PullRequest.
PullRequest(prid, updatedAt, c) ==
    [ ID |-> prid, UpdatedAt |-> updatedAt, State |-> c.state, Title |-> c.title,
      ClosedAt |-> c.closedAt, Merged |-> c.merged, MergedAt |-> c.mergedAt,
      MergedBy |-> c.mergedBy, Milestone |-> c.milestone, Assignee |-> c.assignee,
      User |-> 1, Assignees |-> c.assignees, RequestedReviewers |-> c.reviewers ]

\* --------------------------------------------------------------- rows
\* The gha_issues row of a candidate under an event id.
IssueRow(cfg, eventID) ==
    [ id |-> cfg.IssueID, event_id |-> eventID,
      assignee_id |-> ghActorIDOrNil(cfg.GhIssue.Assignee),
      closed_at |-> cfg.GhIssue.ClosedAt,
      locked |-> cfg.GhIssue.Locked,
      milestone_id |-> ghMilestoneIDOrNil(cfg.GhIssue.Milestone),
      state |-> cfg.GhIssue.State, title |-> cfg.GhIssue.Title,
      updated_at |-> cfg.CreatedAt,
      user_id |-> ghActorIDOrNil(cfg.GhIssue.User),
      dup_actor_id |-> ghActorIDOrNil(cfg.GhEvent.Actor),
      dup_actor_login |-> ghActorLoginOrNil(cfg.GhEvent.Actor),
      dup_created_at |-> cfg.CreatedAt,
      dup_user_login |-> ghActorLoginOrNil(cfg.GhIssue.User),
      dupn_assignee_login |-> ghActorLoginOrNil(cfg.GhIssue.Assignee) ]

\* The gha_pull_requests row of a PR under an event id.
PRRow(cfg, pr, eventID) ==
    [ id |-> pr.ID, event_id |-> eventID,
      user_id |-> ghActorIDOrNil(pr.User),
      merged_by_id |-> ghActorIDOrNil(pr.MergedBy),
      assignee_id |-> ghActorIDOrNil(pr.Assignee),
      milestone_id |-> ghMilestoneIDOrNil(pr.Milestone),
      state |-> pr.State, title |-> pr.Title,
      updated_at |-> pr.UpdatedAt,
      closed_at |-> pr.ClosedAt, merged_at |-> pr.MergedAt, merged |-> pr.Merged,
      dup_actor_id |-> cfg.GhEvent.Actor,
      dup_actor_login |-> ghActorLoginOrNil(cfg.GhEvent.Actor),
      dup_created_at |-> cfg.CreatedAt,
      dup_user_login |-> ghActorLoginOrNil(pr.User),
      dupn_assignee_login |-> ghActorLoginOrNil(pr.Assignee),
      dupn_merged_by_login |-> ghActorLoginOrNil(pr.MergedBy) ]

EventRow(cfg, eventID) ==
    [ id |-> eventID, type |-> cfg.EventType,
      actor_id |-> ghActorIDOrNil(cfg.GhEvent.Actor),
      created_at |-> cfg.CreatedAt,
      dup_actor_login |-> ghActorLoginOrNil(cfg.GhEvent.Actor) ]

PayloadRow(cfg, eventID, iid, prid) ==
    [ event_id |-> eventID, issue_id |-> iid, pull_request_id |-> prid,
      dup_actor_id |-> ghActorIDOrNil(cfg.GhEvent.Actor),
      dup_actor_login |-> ghActorLoginOrNil(cfg.GhEvent.Actor),
      dup_created_at |-> cfg.CreatedAt ]

IssueLabelRow(cfg, eventID, labelID) ==
    [ issue_id |-> cfg.IssueID, event_id |-> eventID, label_id |-> labelID,
      dup_actor_login |-> ghActorLoginOrNil(cfg.GhEvent.Actor),
      dup_created_at |-> cfg.CreatedAt ]

IssueAssigneeRow(iid, eventID, assigneeID) ==
    [ issue_id |-> iid, event_id |-> eventID, assignee_id |-> assigneeID ]

PRAssigneeRow(prid, eventID, assigneeID) ==
    [ pull_request_id |-> prid, event_id |-> eventID, assignee_id |-> assigneeID ]

PRReviewerRow(prid, eventID, reviewerID) ==
    [ pull_request_id |-> prid, event_id |-> eventID,
      requested_reviewer_id |-> reviewerID ]

\* ------------------------------------------------------------- writers
RECURSIVE IssueLabelStmts(_, _, _)
IssueLabelStmts(cfg, eventID, labelIDs) ==
    IF labelIDs = << >> THEN << >>
    ELSE << Insert("issues_labels", IssueLabelRow(cfg, eventID, Head(labelIDs))) >>
         \o IssueLabelStmts(cfg, eventID, Tail(labelIDs))

RECURSIVE IssueAssigneeStmts(_, _, _)
IssueAssigneeStmts(iid, eventID, assigneeIDs) ==
    IF assigneeIDs = << >> THEN << >>
    ELSE << Insert("issues_assignees", IssueAssigneeRow(iid, eventID, Head(assigneeIDs))) >>
         \o IssueAssigneeStmts(iid, eventID, Tail(assigneeIDs))

RECURSIVE PRAssigneeStmts(_, _, _)
PRAssigneeStmts(prid, eventID, assignees) ==
    IF assignees = << >> THEN << >>
    ELSE (IF Head(assignees) = NULL THEN << >>
          ELSE ghActor(Head(assignees))
               \o << Insert("prs_assignees", PRAssigneeRow(prid, eventID, Head(assignees))) >>)
         \o PRAssigneeStmts(prid, eventID, Tail(assignees))

RECURSIVE PRReviewerStmts(_, _, _)
PRReviewerStmts(prid, eventID, reviewers) ==
    IF reviewers = << >> THEN << >>
    ELSE (IF Head(reviewers) = NULL THEN << >>
          ELSE ghActor(Head(reviewers))
               \o << Insert("prs_reviewers", PRReviewerRow(prid, eventID, Head(reviewers))) >>)
         \o PRReviewerStmts(prid, eventID, Tail(reviewers))

\* The synthetic event id minted for a candidate.
UnshiftedEventID(cfg) == cfg.EventID
\* An id minted from the issue id of the candidate.
MintedFromIssueID(cfg) == SyntheticOffset + cfg.IssueID
ArtificialEventID(cfg) == SyntheticOffset + cfg.EventID

\* ArtificialEvent with the event inserted before the issue row.
ArtificialEventEventFirst(cfg) ==
    LET issue == cfg.GhIssue
        iid == cfg.IssueID
        eventID == SyntheticOffset + cfg.EventID
    IN ghActor(issue.Assignee)
       \o ghActor(issue.User)
       \o ghActors(issue.Assignees)
       \o (IF issue.Milestone # NULL
           THEN ghActor(MilestoneCreator(issue.Milestone)) ELSE << >>)
       \o << InsertIgnore("events", EventRow(cfg, eventID)) >>
       \o << Insert("issues", IssueRow(cfg, eventID)) >>
       \o (IF issue.Milestone # NULL THEN ghMilestone(eventID, cfg) ELSE << >>)
       \o << InsertIgnore("payloads", PayloadRow(cfg, eventID, iid, NULL)) >>
       \o IssueLabelStmts(cfg, eventID, SortedSeq(cfg.LabelsMap))
       \o IssueAssigneeStmts(iid, eventID, SortedSeq(cfg.AssigneesMap))

\* The statements of ArtificialEvent's transaction, in the order issued.
\* (The label and assignee maps are ranged over in an arbitrary order; their
\* keys are distinct, so the order does not change what is written.)
ArtificialEvent(cfg) ==
    LET issue == cfg.GhIssue
        iid == cfg.IssueID
        eventID == ArtificialEventID(cfg)
    IN ghActor(issue.Assignee)
       \o ghActor(issue.User)
       \o ghActors(issue.Assignees)
       \o (IF issue.Milestone # NULL
           THEN ghActor(MilestoneCreator(issue.Milestone)) ELSE << >>)
       \o << Insert("issues", IssueRow(cfg, eventID)) >>
       \o (IF issue.Milestone # NULL THEN ghMilestone(eventID, cfg) ELSE << >>)
       \o << InsertIgnore("events", EventRow(cfg, eventID)) >>
       \o << InsertIgnore("payloads", PayloadRow(cfg, eventID, iid, NULL)) >>
       \o IssueLabelStmts(cfg, eventID, SortedSeq(cfg.LabelsMap))
       \o IssueAssigneeStmts(iid, eventID, SortedSeq(cfg.AssigneesMap))

\* The statements of ArtificialPREvent's transaction, in the order issued.
ArtificialPREvent(cfg, pr) ==
    LET eventID == ArtificialEventID(cfg)
        iid == cfg.GhIssue.ID
        prid == pr.ID
    IN ghActor(pr.User)
       \o (IF pr.MergedBy # NULL THEN ghActor(pr.MergedBy) ELSE << >>)
       \o (IF pr.Assignee # NULL THEN ghActor(pr.Assignee) ELSE << >>)
       \o (IF pr.Milestone # NULL THEN ghMilestone(eventID, cfg) ELSE << >>)
       \o << Insert("prs", PRRow(cfg, pr, eventID)) >>
       \o << InsertIgnore("events", EventRow(cfg, eventID)) >>
       \o << InsertIgnore("payloads", PayloadRow(cfg, eventID, iid, prid)) >>
       \o << UpdatePayload(prid, iid, eventID) >>
       \o PRAssigneeStmts(prid, eventID, pr.Assignees)
       \o PRReviewerStmts(prid, eventID, pr.RequestedReviewers)

\* ------------------------------------------------------ storage probes
\* The row a probe query with the opposite order would return.
Earliest(rows) ==
    CHOOSE r \in rows :
        \A o \in rows :
            \/ o.updated_at > r.updated_at
            \/ (o.updated_at = r.updated_at /\ o.event_id >= r.event_id)

\* The row a query "order by updated_at desc, event_id desc limit 1"
\* returns from a non-empty set of rows.
Latest(rows) ==
    CHOOSE r \in rows :
        \A o \in rows :
            \/ o.updated_at < r.updated_at
            \/ (o.updated_at = r.updated_at /\ o.event_id <= r.event_id)

\* The rows the issue probe selects from: every row of the issue in manual
\* mode, the rows at the candidate's exact time otherwise.
IssueProbeRows(db, isManual, cfg) ==
    IF isManual THEN { r \in db.issues : r.id = cfg.IssueID }
    ELSE { r \in db.issues : r.id = cfg.IssueID /\ r.updated_at = cfg.CreatedAt }

PRProbeRows(db, isManual, pr) ==
    IF isManual THEN { r \in db.prs : r.id = pr.ID }
    ELSE { r \in db.prs : r.id = pr.ID /\ r.updated_at = pr.UpdatedAt }

NoCollision(db, ic, pr) == FALSE

\* "select 1 from gha_pull_requests where id = prid and event_id = eventID
\* and updated_at != updatedAt" returns a row.
Collision(db, ic, pr) ==
    \E r \in db.prs : /\ r.id = pr.ID
                      /\ r.event_id = SyntheticOffset + ic.EventID
                      /\ r.updated_at # pr.UpdatedAt

\* string_agg of a join table's ids under one event id, in ascending order.
GhaLabels(db, ghaEventID) ==
    SortedSeq({ r.label_id : r \in { x \in db.issues_labels : x.event_id = ghaEventID } })
GhaAssignees(db, ghaEventID) ==
    SortedSeq({ r.assignee_id : r \in { x \in db.issues_assignees : x.event_id = ghaEventID } })
GhaPRAssignees(db, ghaEventID) ==
    SortedSeq({ r.assignee_id : r \in { x \in db.prs_assignees : x.event_id = ghaEventID } })
GhaRequestedReviewers(db, ghaEventID) ==
    SortedSeq({ r.requested_reviewer_id :
                  r \in { x \in db.prs_reviewers : x.event_id = ghaEventID } })

NeverArtificial(ghaEventID) == FALSE

\* The test the workers apply to a stored event id before comparing.
IsArtificial(ghaEventID) == ghaEventID > SyntheticOffset

\* -------------------------------------------------- divergence detector
Digits == << "0", "1", "2", "3", "4", "5", "6", "7", "8", "9" >>

RECURSIVE Sprintf_d(_)
\* fmt.Sprintf("%d", n) of a non-negative id, and ::text of the query.
Sprintf_d(n) ==
    IF n < 10 THEN Digits[n + 1] ELSE Sprintf_d(n \div 10) \o Digits[(n % 10) + 1]

RECURSIVE JoinIDs(_)
\* The string the worker builds from its sorted array, a comma after every
\* element but the last; string_agg(.., ',') coalesced to '' of the query.
JoinIDs(ary) ==
    IF ary = << >> THEN ""
    ELSE IF Len(ary) = 1 THEN Sprintf_d(ary[1])
    ELSE Sprintf_d(Head(ary)) \o "," \o JoinIDs(Tail(ary))

\* The members' ids as the remote object lists them.
InputOrder(members) == members

\* The array the PR worker sorts from the keys of the map it fills from a
\* member list: the distinct ids in ascending order.
ApiIDList(members) == SortedSeq(Range(members))

\* apiAssignees and apiRequestedReviewers: the canonical id list.
ApiIDString(members) == JoinIDs(ApiIDList(members))

\* The scalar fields only: the label and assignee lists are not compared.
ScalarsChanged(db, cfg, gha) ==
    \/ cfg.GhIssue.State # gha.state
    \/ cfg.GhIssue.Title # gha.title
    \/ cfg.GhIssue.Locked # gha.locked
    \/ ChangedNullableTime(cfg.GhIssue.ClosedAt, gha.closed_at)
    \/ ChangedNullable(cfg.MilestoneID, gha.milestone_id)
    \/ ChangedNullable(cfg.AssigneeID, gha.assignee_id)

\* changedAnything of the issue worker for a candidate and the stored row.
IssueChangedAnything(db, cfg, gha) ==
    LET changedState == cfg.GhIssue.State # gha.state
        changedTitle == cfg.GhIssue.Title # gha.title
        changedLocked == cfg.GhIssue.Locked # gha.locked
        changedClosed == ChangedNullableTime(cfg.GhIssue.ClosedAt, gha.closed_at)
        changedMilestone == ChangedNullable(cfg.MilestoneID, gha.milestone_id)
        changedAssignee == ChangedNullable(cfg.AssigneeID, gha.assignee_id)
        changedLabels == GhaLabels(db, gha.event_id) # cfg.Labels
        changedAssignees == GhaAssignees(db, gha.event_id) # cfg.Assignees
    IN changedMilestone \/ changedState \/ changedClosed \/ changedAssignee
       \/ changedTitle \/ changedLocked \/ changedLabels \/ changedAssignees

\* changedAnything of the PR worker for a PR, its source candidate and the
\* stored row.
PRChangedAnything(db, ic, pr, gha) ==
    LET changedState == pr.State # gha.state
        changedTitle == pr.Title # gha.title
        changedMerged == ChangedNullable(pr.Merged, gha.merged)
        changedClosed == ChangedNullableTime(pr.ClosedAt, gha.closed_at)
        changedMergedAt == ChangedNullableTime(pr.MergedAt, gha.merged_at)
        changedMilestone == ChangedNullable(pr.Milestone, gha.milestone_id)
        changedAssignee == ChangedNullable(pr.Assignee, gha.assignee_id)
        changedMergedBy == ChangedNullable(pr.MergedBy, gha.merged_by_id)
        changedLabels == GhaLabels(db, gha.event_id) # ic.Labels
        changedAssignees ==
            JoinIDs(GhaPRAssignees(db, gha.event_id)) # ApiIDString(pr.Assignees)
        changedRequestedReviewers ==
            JoinIDs(GhaRequestedReviewers(db, gha.event_id))
               # ApiIDString(pr.RequestedReviewers)
    IN changedMilestone \/ changedState \/ changedClosed \/ changedMerged
       \/ changedMergedAt \/ changedMergedBy \/ changedAssignee \/ changedTitle
       \/ changedLabels \/ changedAssignees \/ changedRequestedReviewers

\* ---------------------------------------------------------- normalizer
ByEventID(a, b) == a.EventID < b.EventID

\* IssueConfigAry.Less
Less(a, b) ==
    IF a.IssueID # b.IssueID THEN a.IssueID < b.IssueID
    ELSE IF a.CreatedAt # b.CreatedAt THEN a.CreatedAt < b.CreatedAt
    ELSE a.EventID < b.EventID

Perms(n) == { p \in [ 1 .. n -> 1 .. n ] : \A i, j \in 1 .. n : i # j => p[i] # p[j] }

\* The list as it is: no candidate dropped.
KeepAll(sorted) == sorted

AnyOrder(list) ==
    { [ i \in 1 .. Len(list) |-> list[p[i]] ] : p \in Perms(Len(list)) }

\* The results sort.Sort may leave for a list: its permutations in which no
\* element is Less than one before it (the sort is not stable).
Sorts(list) ==
    { s \in { [ i \in 1 .. Len(list) |-> list[p[i]] ] : p \in Perms(Len(list)) } :
        \A i, j \in 1 .. Len(list) : i < j => ~Less(s[j], s[i]) }

\* "Leave only final state": of a sorted list, the last candidate of every
\* second, in the order of the seconds' strings.
FinalStates(sorted) ==
    LET sdts == SortedSeq({ ToYMDHMSDate(sorted[i].CreatedAt) : i \in DOMAIN sorted })
        mp(sdt) == sorted[Max({ i \in DOMAIN sorted :
                                  ToYMDHMSDate(sorted[i].CreatedAt) = sdt })]
    IN [ k \in DOMAIN sdts |-> mp(sdts[k]) ]

\* The candidate maps normalization may produce from an input map.
Normalized(input) ==
    { f \in [ DOMAIN input -> UNION { { FinalStates(s) : s \in Sorts(input[iid]) } :
                                        iid \in DOMAIN input } ] :
        \A iid \in DOMAIN input : \E s \in Sorts(input[iid]) : f[iid] = FinalStates(s) }

\* ------------------------------------------------------- worker decisions
\* ghaEventID after the probe: the event id scanned from the row the query
\* returned, none when it returned no row.
IssueGhaEventID(db, isManual, cfg) ==
    LET rows == IssueProbeRows(db, isManual, cfg)
    IN IF rows = {} THEN NULL ELSE Latest(rows).event_id

\* As for issues; on a collision the worker returns before its probe.
PRGhaEventID(db, isManual, ic, pr) ==
    LET rows == PRProbeRows(db, isManual, pr)
    IN IF (~isManual /\ Collision(db, ic, pr)) \/ rows = {} THEN NULL
       ELSE Latest(rows).event_id

\* The buckets with the guard for artificial rows applied in either mode.
IssueDecisionAnyMode(db, isManual, cfg) ==
    LET rows == IssueProbeRows(db, isManual, cfg)
    IN IF rows = {} THEN 0
       ELSE IF IsArtificial(Latest(rows).event_id) THEN 1
       ELSE IF IssueChangedAnything(db, cfg, Latest(rows)) THEN 3
       ELSE 2

\* The outcome bucket the issue worker chooses for a candidate against the
\* committed tables: 0 new, 1 artificial exists, 2 not needed, 3 added.
IssueDecision(db, isManual, cfg) ==
    LET rows == IssueProbeRows(db, isManual, cfg)
    IN IF rows = {} THEN 0
       ELSE IF ~isManual /\ IsArtificial(Latest(rows).event_id) THEN 1
       ELSE IF IssueChangedAnything(db, cfg, Latest(rows)) THEN 3
       ELSE 2

\* The outcome bucket the PR worker chooses: as for issues, and 4 for a
\* collision (non-manual mode only).
PRDecision(db, isManual, ic, pr) ==
    LET rows == PRProbeRows(db, isManual, pr)
    IN IF ~isManual /\ Collision(db, ic, pr) THEN 4
       ELSE IF rows = {} THEN 0
       ELSE IF ~isManual /\ IsArtificial(Latest(rows).event_id) THEN 1
       ELSE IF PRChangedAnything(db, ic, pr, Latest(rows)) THEN 3
       ELSE 2

OnlyWhenChanged(uidx) == uidx = 3

\* The buckets after which the worker calls the writer.
CallsWriter(uidx) == uidx \in { 0, 3 }

\* The committed tables once the process has died with a transaction open
\* whose statements so far gave `partial`: the transaction is rolled back.
KeepPartial(committed, partial) == partial
Rollback(committed, partial) == committed

\* ------------------------------------------------------------- the state
VARIABLES
    store,      \* the committed tables
    batch,      \* the input of the run: [issues: id -> list, prs: id -> PR]
    manual,     \* the manual flag of SyncIssuesState
    skipPDB,    \* ctx.SkipPDB
    thrN,       \* GetThreadsNum(ctx)
    issues,     \* the candidate map, normalized in place
    phase,      \* "start", "issues", "prs", "done" or "aborted"
    work,       \* the order in which the phase's loop ranges over its items
    w,          \* the goroutines started in the phase; w[i] handles work[i]
    nThreads,   \* goroutines started and not yet received from
    checked,    \* completion signals received
    updates,    \* the outcome counters; bucket b is updates[b + 1]
    printed,    \* the summaries printed by the run
    run,        \* the number of the run
    rerun,      \* the run repeats the batch of the completed run before it
    updatesMutex,   \* the goroutine that holds updatesMutex, 0 when free
    infosMutex,     \* the goroutine that holds infosMutex, 0 when free
    gc,             \* the remote client: the call in hand and what came of it
    why,        \* the variable why that the goroutines of the issue phase share
    what,       \* the variable what that they share
    infos       \* the map infos: reason -> the descriptions filed under it

vars == << store, batch, manual, skipPDB, thrN, issues, phase, work, w,
           nThreads, checked, updates, printed, run, rerun, updatesMutex, infosMutex,
           gc, why, what, infos >>

\* The arguments of the run, the mutexes of its goroutines, and the reasons
\* they file.
args == << batch, manual, skipPDB, thrN, run, rerun, gc >>
mutexes == << updatesMutex, infosMutex >>
reasons == << why, what, infos >>

\* What a step leaves alone unless it says otherwise: the arguments, the
\* mutexes (a step that counts takes and releases the mutex within it) and
\* the reasons (the steps of SpecLocks file them).
config == << args, mutexes, reasons >>

\* The reasons under which a goroutine of the issue phase files, and the
\* map infos as make() returns it: no description under any reason.
Reasons ==
    { "no previous issue state", "no event at date", "already have artificial event at date",
      "changed issue state", "changed issue title" }
NoInfos == [ r \in Reasons |-> << >> ]

\* The remote client with no call in hand.
NoCall == [ fn |-> "none" ]

\* A goroutine as the loop starts it.
NewWorker ==
    [ pc |-> "probe", uidx |-> NULL, calls |-> 0, tx |-> << >>, gha |-> NULL, noted |-> 0,
      said |-> FALSE ]

\* The candidate of issue worker i and the PR, candidate list and source
\* candidate of PR worker i.
Cfg(i) == issues[work[i].iid][work[i].idx]
Pr(i) == batch.prs[work[i].iid]
Ica(i) == IF work[i].iid \in DOMAIN issues THEN issues[work[i].iid] ELSE << >>
Ic(i) == Ica(i)[Len(Ica(i))]

\* The orders in which a loop may range over the keys of a map.
KeyOrders(keys) ==
    { s \in [ 1 .. Cardinality(keys) -> keys ] : \A k \in keys : \E i \in DOMAIN s : s[i] = k }

RECURSIVE IssueWork(_, _)
\* The (key, idx) pairs of the issue loop for one order of the keys.
IssueWork(map, order) ==
    IF order = << >> THEN << >>
    ELSE [ idx \in 1 .. Len(map[Head(order)]) |-> [ iid |-> Head(order), idx |-> idx ] ]
         \o IssueWork(map, Tail(order))

PRWork(order) == [ k \in DOMAIN order |-> [ iid |-> order[k], idx |-> 0 ] ]

\* The process dies: a fatal error or a panic in goroutine i, whose open
\* transaction had run the statements ran.
Abort(i, db, ran) ==
    /\ phase' = "aborted"
    /\ w' = [ w EXCEPT ![i].pc = "aborted", ![i].tx = ran ]
    /\ store' = db
    /\ UNCHANGED << config, issues, work, nThreads, checked, updates, printed >>

\* --------------------------------------------------------- orchestrator
\* SyncIssuesState up to the issue loop: normalization (non-manual only)
\* and the start of the issue phase.
StartRun ==
    /\ phase = "start"
    /\ \E norm \in (IF manual THEN { batch.issues } ELSE Normalized(batch.issues)) :
         /\ issues' = norm
         /\ \E order \in KeyOrders(DOMAIN norm) : work' = IssueWork(norm, order)
    /\ phase' = "issues"
    /\ w' = << >>
    /\ nThreads' = 0
    /\ checked' = 0
    /\ updates' = << 0, 0, 0, 0 >>
    /\ printed' = << >>
    /\ UNCHANGED << store, config >>

\* The loop starts a goroutine whatever the number in flight.
SpawnUnbounded ==
    /\ phase \in { "issues", "prs" }
    /\ Len(w) < Len(work)
    /\ w' = Append(w, NewWorker)
    /\ nThreads' = nThreads + 1
    /\ UNCHANGED << store, config, issues, phase, work, checked, updates, printed >>

\* One iteration of the phase's loop up to its receive: the goroutine is
\* started and counted.
Spawn ==
    /\ phase \in { "issues", "prs" }
    /\ Len(w) < Len(work)
    /\ nThreads < thrN
    /\ w' = Append(w, NewWorker)
    /\ nThreads' = nThreads + 1
    /\ UNCHANGED << store, config, issues, phase, work, checked, updates, printed >>

\* "<-ch": in the loop when nThreads has reached thrN, after it while
\* nThreads > 0; the send of worker i completes.
Receive(i) ==
    /\ phase \in { "issues", "prs" }
    /\ i \in DOMAIN w
    /\ w[i].pc = "send"
    /\ nThreads = thrN \/ Len(w) = Len(work)
    /\ w' = [ w EXCEPT ![i].pc = "done" ]
    /\ nThreads' = nThreads - 1
    /\ checked' = checked + 1
    /\ UNCHANGED << store, config, issues, phase, work, updates, printed >>

\* The issue phase ends without the drain of its goroutines.
EndIssuesUndrained ==
    /\ phase = "issues"
    /\ Len(w) = Len(work)
    /\ printed' = Append(printed, [ checked |-> checked, updates |-> updates ])
    /\ phase' = "prs"
    /\ \E order \in KeyOrders(DOMAIN batch.prs) : work' = PRWork(order)
    /\ w' = << >>
    /\ checked' = 0
    /\ nThreads' = 0
    /\ updates' = << 0, 0, 0, 0, 0 >>
    /\ UNCHANGED << store, config, issues >>

\* The end of the issue phase: the summary, then the set-up of the PR phase.
EndIssues ==
    /\ phase = "issues"
    /\ Len(w) = Len(work)
    /\ nThreads = 0
    /\ printed' = Append(printed, [ checked |-> checked, updates |-> updates ])
    /\ phase' = "prs"
    /\ \E order \in KeyOrders(DOMAIN batch.prs) : work' = PRWork(order)
    /\ w' = << >>
    /\ checked' = 0
    /\ updates' = << 0, 0, 0, 0, 0 >>
    /\ UNCHANGED << store, config, issues, nThreads >>

\* The end of the PR phase: the summary; SyncIssuesState returns.
EndPRs ==
    /\ phase = "prs"
    /\ Len(w) = Len(work)
    /\ nThreads = 0
    /\ printed' = Append(printed, [ checked |-> checked, updates |-> updates ])
    /\ phase' = "done"
    /\ UNCHANGED << store, config, issues, work, w, nThreads, checked, updates >>

\* --------------------------------------------------------------- workers
\* The issue worker from its start to its decision.
IssueProbe(i) ==
    /\ phase = "issues"
    /\ i \in DOMAIN w
    /\ w[i].pc = "probe"
    /\ LET uidx == IssueDecision(store, manual, Cfg(i))
       IN w' = [ w EXCEPT ![i].uidx = uidx,
                          ![i].gha = IssueGhaEventID(store, manual, Cfg(i)),
                          ![i].pc = IF CallsWriter(uidx) THEN "write" ELSE "count" ]
    /\ UNCHANGED << store, config, issues, phase, work, nThreads, checked, updates, printed >>

\* The PR worker from its start to its decision; ica[l-1] panics when the
\* issue id has no candidate.
PRProbe(i) ==
    /\ phase = "prs"
    /\ i \in DOMAIN w
    /\ w[i].pc = "probe"
    /\ IF Len(Ica(i)) = 0
       THEN Abort(i, store, << >>)
       ELSE /\ LET uidx == PRDecision(store, manual, Ic(i), Pr(i))
               IN w' = [ w EXCEPT ![i].uidx = uidx,
                                  ![i].gha = PRGhaEventID(store, manual, Ic(i), Pr(i)),
                                  ![i].pc = IF CallsWriter(uidx) THEN "write" ELSE "count" ]
            /\ UNCHANGED << store, config, issues, phase, work, nThreads, checked,
                            updates, printed >>

\* The statements of the transaction worker i's writer issues.
WriterStmts(i) ==
    IF phase = "issues" THEN ArtificialEvent(Cfg(i)) ELSE ArtificialPREvent(Ic(i), Pr(i))

\* The writer without the test of SkipPDB.
WriteAlways(i) ==
    /\ phase \in { "issues", "prs" }
    /\ i \in DOMAIN w
    /\ w[i].pc = "write"
    /\ LET r == ExecAll(store, WriterStmts(i))
       IN IF r.ok
          THEN /\ w' = [ w EXCEPT ![i].pc = "commit", ![i].calls = @ + 1,
                                  ![i].tx = WriterStmts(i) ]
               /\ UNCHANGED << store, config, issues, phase, work, nThreads,
                               checked, updates, printed >>
          ELSE Abort(i, Rollback(store, r.db), SubSeq(WriterStmts(i), 1, r.n))

\* The writer from its call to its last statement: it returns at once under
\* SkipPDB, and a statement that fails is fatal.
Write(i) ==
    /\ phase \in { "issues", "prs" }
    /\ i \in DOMAIN w
    /\ w[i].pc = "write"
    /\ IF skipPDB
       THEN /\ w' = [ w EXCEPT ![i].pc = "count", ![i].calls = @ + 1 ]
            /\ UNCHANGED << store, config, issues, phase, work, nThreads, checked,
                            updates, printed >>
       ELSE LET r == ExecAll(store, WriterStmts(i))
            IN IF r.ok
               THEN /\ w' = [ w EXCEPT ![i].pc = "commit", ![i].calls = @ + 1,
                                       ![i].tx = WriterStmts(i) ]
                    /\ UNCHANGED << store, config, issues, phase, work, nThreads,
                                    checked, updates, printed >>
               ELSE Abort(i, Rollback(store, r.db), SubSeq(WriterStmts(i), 1, r.n))

\* tc.Commit(): the rows of the transaction reach the committed tables; a
\* key another transaction committed meanwhile fails it.
Commit(i) ==
    /\ phase \in { "issues", "prs" }
    /\ i \in DOMAIN w
    /\ w[i].pc = "commit"
    /\ LET r == ExecAll(store, w[i].tx)
       IN IF r.ok
          THEN /\ store' = r.db
               /\ w' = [ w EXCEPT ![i].pc = "count", ![i].tx = << >> ]
               /\ UNCHANGED << config, issues, phase, work, nThreads, checked,
                               updates, printed >>
          ELSE Abort(i, Rollback(store, r.db), w[i].tx)

\* A database call of worker i returns an error (a probe query, a statement
\* of its transaction after the k before it ran, or the commit): fatal.
Fault(i) ==
    /\ phase \in { "issues", "prs" }
    /\ i \in DOMAIN w
    /\ \/ /\ w[i].pc = "probe"
          /\ Abort(i, store, << >>)
       \/ /\ w[i].pc = "write"
          /\ ~skipPDB
          /\ \E k \in 0 .. Len(WriterStmts(i)) - 1 :
               LET r == ExecAll(store, SubSeq(WriterStmts(i), 1, k))
               IN Abort(i, Rollback(store, r.db), SubSeq(WriterStmts(i), 1, r.n))
       \/ /\ w[i].pc = "commit"
          /\ Abort(i, Rollback(store, ExecAll(store, w[i].tx).db), w[i].tx)

\* The worker counts its outcome twice.
CountTwice(i) ==
    /\ phase \in { "issues", "prs" }
    /\ i \in DOMAIN w
    /\ w[i].pc = "count"
    /\ updates' = [ updates EXCEPT ![w[i].uidx + 1] = @ + 2 ]
    /\ w' = [ w EXCEPT ![i].pc = "send" ]
    /\ UNCHANGED << store, config, issues, phase, work, nThreads, checked, printed >>

\* The worker counts its outcome under updatesMutex.
Count(i) ==
    /\ phase \in { "issues", "prs" }
    /\ i \in DOMAIN w
    /\ w[i].pc = "count"
    /\ updates' = [ updates EXCEPT ![w[i].uidx + 1] = @ + 1 ]
    /\ w' = [ w EXCEPT ![i].pc = "send" ]
    /\ UNCHANGED << store, config, issues, phase, work, nThreads, checked, printed >>

\* ------------------------------------------------------------ the inputs
\* The entity of the model: issue 1, which as a pull request has id 11.
IssueID == 1
PRID == 11

Labels == { 1, 2 }
Milestones == { 1, 2 }

BaseIssue == IssueContent("open", "A", FALSE, NULL, 1, 2, { 1, 2 }, { 2 })
AltIssue == IssueContent("closed", "A", FALSE, 0, NULL, NULL, { }, { })

BasePR == PRContent("open", "A", NULL, 0, NULL, NULL, 1, 2, << 2 >>, << 1 >>)
AltPR == PRContent("closed", "A", 0, NULL, 0, 1, NULL, NULL, << >>, << >>)

\* A content and the contents that differ from it in one field.
IssueVariants(b) ==
    { b }
    \cup { [ b EXCEPT !.state = v ] : v \in { "open", "closed" } }
    \cup { [ b EXCEPT !.title = v ] : v \in { "A", "B" } }
    \cup { [ b EXCEPT !.locked = v ] : v \in BOOLEAN }
    \cup { [ b EXCEPT !.closedAt = v ] : v \in { NULL } \cup Times }
    \cup { [ b EXCEPT !.milestone = v ] : v \in { NULL } \cup Milestones }
    \cup { [ b EXCEPT !.assignee = v ] : v \in { NULL } \cup Users }
    \cup { [ b EXCEPT !.labels = v ] : v \in SUBSET Labels }
    \cup { [ b EXCEPT !.assignees = v ] : v \in SUBSET Users }

MemberLists == { << >>, << 1 >>, << 2 >>, << 1, 2 >>, << 2, 1 >> }

PRVariants(b) ==
    { b }
    \cup { [ b EXCEPT !.state = v ] : v \in { "open", "closed" } }
    \cup { [ b EXCEPT !.title = v ] : v \in { "A", "B" } }
    \cup { [ b EXCEPT !.closedAt = v ] : v \in { NULL } \cup Times }
    \cup { [ b EXCEPT !.merged = v ] : v \in { NULL, 0, 1 } }
    \cup { [ b EXCEPT !.mergedAt = v ] : v \in { NULL } \cup Times }
    \cup { [ b EXCEPT !.mergedBy = v ] : v \in { NULL } \cup Users }
    \cup { [ b EXCEPT !.milestone = v ] : v \in { NULL } \cup Milestones }
    \cup { [ b EXCEPT !.assignee = v ] : v \in { NULL } \cup Users }
    \cup { [ b EXCEPT !.assignees = v ] : v \in MemberLists }
    \cup { [ b EXCEPT !.reviewers = v ] : v \in MemberLists }

IssueContents == IssueVariants(BaseIssue) \cup IssueVariants(AltIssue)
PRContents == PRVariants(BasePR) \cup PRVariants(AltPR)

\* The event id and the time of the snapshot the store holds from the
\* event stream: the greatest real id, at the last tick of the first second.
RealEventID == SyntheticOffset - 1
RealTime == TicksPerSec - 1

\* What the importer of the event stream stored for one event on the
\* entity: its issue row and join rows and, for a pull request (prc is its
\* content, << >> for an issue), its PR row and join rows, under the
\* event's real id.
GHAImport(cfg, prc) ==
    LET isPR == prc # << >>
        pr == PullRequest(PRID, cfg.CreatedAt, prc[1])
        stmts ==
          ghActor(cfg.GhEvent.Actor)
          \o ghActor(cfg.GhIssue.User) \o ghActor(cfg.GhIssue.Assignee)
          \o << Insert("issues", IssueRow(cfg, cfg.EventID)),
                Insert("events", EventRow(cfg, cfg.EventID)),
                Insert("payloads", PayloadRow(cfg, cfg.EventID, cfg.IssueID,
                                              IF isPR THEN PRID ELSE NULL)) >>
          \o IssueLabelStmts(cfg, cfg.EventID, SortedSeq(cfg.LabelsMap))
          \o IssueAssigneeStmts(cfg.IssueID, cfg.EventID, SortedSeq(cfg.AssigneesMap))
          \o (IF isPR
              THEN << Insert("prs", PRRow(cfg, pr, cfg.EventID)) >>
                   \o PRAssigneeStmts(PRID, cfg.EventID, SortedSeq(Range(pr.Assignees)))
                   \o PRReviewerStmts(PRID, cfg.EventID,
                                      SortedSeq(Range(pr.RequestedReviewers)))
              ELSE << >>)
    IN ExecAll(EmptyDB, stmts).db

RealIssue(c) == IssueConfig(IssueID, RealTime, RealEventID, c)

OneIssue(t, e, c) ==
    [ issues |-> (IssueID :> << IssueConfig(IssueID, t, e, c) >>), prs |-> << >> ]

TwoIssues(t1, e1, c1, t2, e2, c2) ==
    [ issues |-> (IssueID :> << IssueConfig(IssueID, t1, e1, c1),
                                 IssueConfig(IssueID, t2, e2, c2) >>),
      prs |-> << >> ]

OnePR(t, e, c, u, pc) ==
    [ issues |-> (IssueID :> << IssueConfig(IssueID, t, e, c) >>),
      prs |-> (IssueID :> PullRequest(PRID, u, pc)) ]

PRAlone(u, pc) == [ issues |-> << >>, prs |-> (IssueID :> PullRequest(PRID, u, pc)) ]

IsPR(b) == DOMAIN b.prs # {}

\* ------------------------------------------- Spec: one run of the engine
\* The (store, batch) pairs of one run: a store that is empty or holds one
\* snapshot from the event stream, and
\*  - one candidate at the snapshot's time, of any content;
\*  - one candidate at any time, or two, of the base contents;
\*  - a PR of any content with the candidate of its issue, or alone.
StoreContents == { BaseIssue, AltIssue }
StorePRContents == { BasePR, AltPR }

Scenarios ==
    { << GHAImport(RealIssue(sc), << >>), OneIssue(RealTime, e, c) >> :
        sc \in StoreContents, e \in EventIDs, c \in IssueContents }
    \cup
    { << db, OneIssue(t, e, c) >> :
        db \in { EmptyDB, GHAImport(RealIssue(BaseIssue), << >>) },
        t \in Times, e \in EventIDs, c \in { BaseIssue, AltIssue } }
    \cup
    { << db, TwoIssues(t[1], e[1], BaseIssue, t[2], e[2], AltIssue) >> :
        db \in { EmptyDB, GHAImport(RealIssue(BaseIssue), << >>) },
        t \in { << 0, MaxTick >>, << MaxTick, 0 >>, << 0, RealTime >>, << RealTime, 0 >> },
        e \in { << 1, 2 >>, << 2, 1 >>, << 1, 1 >> } }
    \cup
    { << GHAImport(RealIssue(BaseIssue), << sc >>), OnePR(t, e, BaseIssue, RealTime, c) >> :
        sc \in StorePRContents, t \in { 0, RealTime }, e \in EventIDs, c \in PRContents }
    \cup
    { << db, OnePR(t, e, c, u, BasePR) >> :
        db \in { EmptyDB, GHAImport(RealIssue(BaseIssue), << BasePR >>) },
        t \in { 0, RealTime }, e \in EventIDs, c \in { BaseIssue, AltIssue }, u \in Times }
    \cup
    { << EmptyDB, PRAlone(RealTime, BasePR) >> }

InitRun ==
    /\ issues = batch.issues
    /\ phase = "start"
    /\ work = << >>
    /\ w = << >>
    /\ nThreads = 0
    /\ checked = 0
    /\ updates = << 0, 0, 0, 0 >>
    /\ printed = << >>
    /\ run = 1
    /\ rerun = FALSE
    /\ updatesMutex = 0
    /\ infosMutex = 0
    /\ why = ""
    /\ what = << >>
    /\ infos = NoInfos
    /\ gc = NoCall

\* A manual batch has one entry per issue.
OnePerIssue(b) == \A iid \in DOMAIN b.issues : Len(b.issues[iid]) <= 1

Init ==
    /\ \E sc \in Scenarios : store = sc[1] /\ batch = sc[2]
    /\ manual \in BOOLEAN
    /\ manual => OnePerIssue(batch)
    /\ skipPDB \in BOOLEAN
    /\ thrN \in 1 .. MaxThreads
    /\ InitRun

Next ==
    \/ StartRun
    \/ Spawn
    \/ \E i \in DOMAIN w : Receive(i)
    \/ EndIssues
    \/ EndPRs
    \/ \E i \in DOMAIN w : IssueProbe(i)
    \/ \E i \in DOMAIN w : PRProbe(i)
    \/ \E i \in DOMAIN w : Write(i)
    \/ \E i \in DOMAIN w : Commit(i)
    \/ \E i \in DOMAIN w : Fault(i)
    \/ \E i \in DOMAIN w : Count(i)

Spec == Init /\ [][Next]_vars

\* ------------------------------------ SpecRuns: several runs in a row
\* The batches of the runs: one candidate of the issue, with its PR when
\* the entity is a pull request; in non-manual mode also two candidates of
\* the issue in one second (a manual batch has one candidate per entity).
TitleB(c) == [ c EXCEPT !.title = "B" ]

RunBatches(isPR, isManual) ==
    IF isPR
    THEN { OnePR(0, e, BaseIssue, u, c) :
             e \in EventIDs, u \in Times, c \in { BasePR, TitleB(BasePR) } }
    ELSE { OneIssue(t, e, c) :
             t \in Times, e \in EventIDs, c \in { BaseIssue, TitleB(BaseIssue) } }
         \cup (IF isManual THEN { }
               ELSE { TwoIssues(0, 1, BaseIssue, RealTime, 2, TitleB(BaseIssue)),
                      TwoIssues(0, 2, BaseIssue, 0, 1, TitleB(BaseIssue)) })

InitRuns ==
    /\ manual \in BOOLEAN
    /\ \E isPR \in BOOLEAN :
         /\ batch \in RunBatches(isPR, manual)
         /\ store = GHAImport(RealIssue(BaseIssue), IF isPR THEN << BasePR >> ELSE << >>)
    /\ skipPDB = FALSE
    /\ thrN = 1
    /\ InitRun

\* The outer scheduler runs SyncIssuesState again on the same batch.
Rerun ==
    /\ phase = "done"
    /\ run < MaxRuns
    /\ run' = run + 1
    /\ rerun' = TRUE
    /\ issues' = batch.issues
    /\ phase' = "start"
    /\ UNCHANGED << store, batch, manual, skipPDB, thrN, work, w, nThreads, checked,
                    updates, printed, mutexes, gc, reasons >>

\* The outer scheduler runs SyncIssuesState on the next harvest of the entity.
NextRun ==
    /\ phase = "done"
    /\ run < MaxRuns
    /\ run' = run + 1
    /\ rerun' = FALSE
    /\ batch' \in RunBatches(IsPR(batch), manual)
    /\ issues' = batch'.issues
    /\ phase' = "start"
    /\ UNCHANGED << store, manual, skipPDB, thrN, work, w, nThreads, checked,
                    updates, printed, mutexes, gc, reasons >>

NextRuns == Next \/ Rerun \/ NextRun

SpecRuns == InitRuns /\ [][NextRuns]_vars

\* ------------------------------- SpecNorm: the normalizer on its inputs
\* The candidates of an issue id: every time and event id, and one more
\* with the time and event id of another and a different content.
Candidates(iid) ==
    { IssueConfig(iid, t, e, BaseIssue) : t \in Times, e \in EventIDs }
    \cup { IssueConfig(iid, 0, 0, TitleB(BaseIssue)) }

Lists(S, n) == UNION { [ 1 .. k -> S ] : k \in 0 .. n }

\* The candidate maps: any list for the issue, alone or beside a second
\* issue id with two candidates in one second.
NormInputs ==
    { (IssueID :> l) : l \in Lists(Candidates(IssueID), MaxCands) }
    \cup { (IssueID :> l) @@ (IssueID + 1 :> << IssueConfig(IssueID + 1, RealTime, 1, BaseIssue),
                                                IssueConfig(IssueID + 1, 0, 2, BaseIssue) >>) :
             l \in Lists(Candidates(IssueID), MaxCands - 1) }

InitNorm ==
    /\ \E in \in NormInputs : batch = [ issues |-> in, prs |-> << >> ]
    /\ store = EmptyDB
    /\ manual = FALSE
    /\ skipPDB = FALSE
    /\ thrN = 1
    /\ InitRun

NextNorm == StartRun

SpecNorm == InitNorm /\ [][NextNorm]_vars

\* ------------------- SpecConc: two entities, their workers side by side
\* The second entity: issue 2, which as a pull request has id 12; the store
\* holds its snapshot under the real event id before RealEventID.
IssueID2 == IssueID + 1
PRID2 == PRID + 1

\* The committed tables of two stores of different entities.
Both(db1, db2) == [ t \in Tables |-> db1[t] \cup db2[t] ]

\* The importer's rows for the second entity, a pull request of the base
\* content.
GHAImport2 ==
    LET cfg == IssueConfig(IssueID2, RealTime, RealEventID - 1, BaseIssue)
        pr == PullRequest(PRID2, RealTime, BasePR)
    IN ExecAll(EmptyDB,
               ghActor(cfg.GhEvent.Actor)
               \o ghActor(cfg.GhIssue.User) \o ghActor(cfg.GhIssue.Assignee)
               \o << Insert("issues", IssueRow(cfg, cfg.EventID)),
                     Insert("events", EventRow(cfg, cfg.EventID)),
                     Insert("payloads", PayloadRow(cfg, cfg.EventID, IssueID2, PRID2)) >>
               \o IssueLabelStmts(cfg, cfg.EventID, SortedSeq(cfg.LabelsMap))
               \o IssueAssigneeStmts(IssueID2, cfg.EventID, SortedSeq(cfg.AssigneesMap))
               \o << Insert("prs", PRRow(cfg, pr, cfg.EventID)) >>
               \o PRAssigneeStmts(PRID2, cfg.EventID, SortedSeq(Range(pr.Assignees)))
               \o PRReviewerStmts(PRID2, cfg.EventID,
                                  SortedSeq(Range(pr.RequestedReviewers)))).db

\* The batches: candidates of the two issues (for the first, in non-manual
\* mode, at two seconds) under distinct event ids, and the two PRs.
ConcBatches(isManual) ==
    { [ issues |-> (IssueID :> (<< IssueConfig(IssueID, RealTime, 1, c1) >>
                                \o (IF isManual THEN << >>
                                    ELSE << IssueConfig(IssueID, MaxTick, 2, BaseIssue) >>)))
                   @@ (IssueID2 :> << IssueConfig(IssueID2, t2, 0, BaseIssue) >>),
        prs |-> (IssueID :> PullRequest(PRID, RealTime, pc))
                @@ (IssueID2 :> PullRequest(PRID2, RealTime, BasePR)) ] :
        c1 \in { BaseIssue, AltIssue }, t2 \in { 0, RealTime }, pc \in { BasePR, AltPR } }

InitConc ==
    /\ manual \in BOOLEAN
    /\ batch \in ConcBatches(manual)
    /\ store \in { EmptyDB, Both(GHAImport(RealIssue(BaseIssue), << BasePR >>), GHAImport2) }
    /\ skipPDB = FALSE
    /\ thrN \in 1 .. MaxThreads
    /\ InitRun

SpecConc == InitConc /\ [][Next]_vars

\* ------------- SpecLive: the run when every database call returns
\* The batches of SpecConc, and one issue with its PR (fewer items than
\* goroutines allowed).
InitLive ==
    /\ manual \in BOOLEAN
    /\ batch \in ConcBatches(manual)
                 \cup { OnePR(RealTime, 1, c, RealTime, BasePR) : c \in { BaseIssue, AltIssue } }
    /\ store \in { EmptyDB, Both(GHAImport(RealIssue(BaseIssue), << BasePR >>), GHAImport2) }
    /\ skipPDB = FALSE
    /\ thrN \in 1 .. MaxThreads
    /\ InitRun

\* The steps of the run without the failure of a database call.
NextLive ==
    \/ StartRun
    \/ Spawn
    \/ \E i \in DOMAIN w : Receive(i)
    \/ EndIssues
    \/ EndPRs
    \/ \E i \in DOMAIN w : IssueProbe(i)
    \/ \E i \in DOMAIN w : PRProbe(i)
    \/ \E i \in DOMAIN w : Write(i)
    \/ \E i \in DOMAIN w : Commit(i)
    \/ \E i \in DOMAIN w : Count(i)

\* The scheduler runs a goroutine that can take a step, and a database
\* call that does not fail returns.
SpecLive == InitLive /\ [][NextLive]_vars /\ WF_vars(NextLive)

\* ------ SpecLocks: the goroutines at the grain of their critical sections
\* The reasons the issue worker files in infos while it compares: a changed
\* state and a changed title, each under infosMutex, before the writer.
ComparedWith(i) == CHOOSE r \in store.issues : r.id = Cfg(i).IssueID /\ r.event_id = w[i].gha

Notes(i) ==
    IF phase = "issues" /\ w[i].uidx \in { 2, 3 }
    THEN (IF Cfg(i).GhIssue.State # ComparedWith(i).state THEN 1 ELSE 0)
         + (IF Cfg(i).GhIssue.Title # ComparedWith(i).title THEN 1 ELSE 0)
    ELSE 0

\* The goroutine files its outcome under updatesMutex (the paths "new" and
\* "artificial exists"); it has a reason of the comparison left to file.
FilesOutcome(i) == phase = "issues" /\ w[i].uidx \in { 0, 1 }
FilesNote(i) == w[i].pc \in { "write", "count" } /\ w[i].calls = 0 /\ w[i].noted < Notes(i)

\* The head of a description: fmt.Sprintf of the repository and number of
\* the candidate and, when not manual, of its date and event type.
Described(i) ==
    IF manual
    THEN << Cfg(i).IssueID >>
    ELSE << Cfg(i).IssueID, ToYMDHMSDate(Cfg(i).CreatedAt), Cfg(i).EventType >>

\* The date and the event type are in the description of an artificial
\* event that exists, which only a run that is not manual meets.
DescribedAtDate(i) ==
    << Cfg(i).IssueID, ToYMDHMSDate(Cfg(i).CreatedAt), Cfg(i).EventType >>

\* The reason that goroutine i computes next, and its description.
OwnWhy(i) ==
    CASE w[i].uidx = 0 -> (IF manual THEN "no previous issue state" ELSE "no event at date")
      [] w[i].uidx = 1 -> "already have artificial event at date"
      [] OTHER ->
           IF w[i].noted = 0 /\ Cfg(i).GhIssue.State # ComparedWith(i).state
           THEN "changed issue state"
           ELSE "changed issue title"

OwnWhat(i) ==
    CASE w[i].uidx = 0 -> Described(i)
      [] w[i].uidx = 1 -> DescribedAtDate(i)
      [] OTHER ->
           IF w[i].noted = 0 /\ Cfg(i).GhIssue.State # ComparedWith(i).state
           THEN Described(i) \o << ComparedWith(i).state, Cfg(i).GhIssue.State >>
           ELSE Described(i) \o << ComparedWith(i).title, Cfg(i).GhIssue.Title >>

\* The goroutine assigns why and what, the variables that the goroutines
\* share, with no mutex held.
Say(i) ==
    /\ phase = "issues"
    /\ i \in DOMAIN w
    /\ ~w[i].said
    /\ \/ w[i].pc = "count" /\ FilesOutcome(i)
       \/ FilesNote(i)
    /\ why' = OwnWhy(i)
    /\ what' = OwnWhat(i)
    /\ w' = [ w EXCEPT ![i].said = TRUE ]
    /\ UNCHANGED << store, args, mutexes, infos, issues, phase, work, nThreads, checked,
                    updates, printed >>

\* infos[why] = append(infos[why], what), of the variables as they are.
Filed == [ infos EXCEPT ![why] = Append(@, what) ]

\* infosMutex.Lock() before a reason of the comparison is filed.
NoteLock(i) ==
    /\ phase = "issues"
    /\ i \in DOMAIN w
    /\ FilesNote(i)
    /\ w[i].said
    /\ infosMutex = 0
    /\ infosMutex' = i
    /\ UNCHANGED << store, args, issues, phase, work, w, nThreads, checked, updates,
                    printed, updatesMutex, reasons >>

\* The reason is filed in infos; infosMutex.Unlock().
NoteUnlock(i) ==
    /\ phase = "issues"
    /\ i \in DOMAIN w
    /\ infosMutex = i
    /\ infos' = Filed
    /\ infosMutex' = 0
    /\ w' = [ w EXCEPT ![i].noted = @ + 1, ![i].said = FALSE ]
    /\ UNCHANGED << store, args, issues, phase, work, nThreads, checked, updates,
                    printed, updatesMutex, why, what >>

\* The writer is called once the comparison is over.
WriteAfterNotes(i) ==
    /\ i \in DOMAIN w
    /\ w[i].noted = Notes(i)
    /\ Write(i)

\* updatesMutex.Lock() before the outcome is counted.
CountLock(i) ==
    /\ phase \in { "issues", "prs" }
    /\ i \in DOMAIN w
    /\ w[i].pc = "count"
    /\ w[i].noted = Notes(i)
    /\ FilesOutcome(i) => w[i].said
    /\ updatesMutex = 0
    /\ updatesMutex' = i
    /\ UNCHANGED << store, args, issues, phase, work, w, nThreads, checked, updates,
                    printed, infosMutex, reasons >>

\* updates[uidx]++ and, on the paths "new" and "artificial exists" of the
\* issue worker, the reason filed in infos; updatesMutex.Unlock().
CountUnlock(i) ==
    /\ phase \in { "issues", "prs" }
    /\ i \in DOMAIN w
    /\ updatesMutex = i
    /\ updates' = [ updates EXCEPT ![w[i].uidx + 1] = @ + 1 ]
    /\ infos' = IF FilesOutcome(i) THEN Filed ELSE infos
    /\ w' = [ w EXCEPT ![i].pc = "send", ![i].said = FALSE ]
    /\ updatesMutex' = 0
    /\ UNCHANGED << store, args, issues, phase, work, nThreads, checked, printed,
                    infosMutex, why, what >>

\* Goroutine i is between the Lock and the Unlock of a section in which it
\* writes the counters; in which it writes the map infos.
InUpdates(i) == updatesMutex = i
InInfos(i) ==
    \/ infosMutex = i
    \/ updatesMutex = i /\ FilesOutcome(i)

\* Two goroutines write the map at once: the Go runtime may detect it and
\* end the process ("fatal error: concurrent map writes").
MapCrash ==
    /\ phase = "issues"
    /\ \E i, j \in DOMAIN w :
          /\ i # j
          /\ InInfos(i)
          /\ InInfos(j)
          /\ Abort(i, store, w[i].tx)

NextLocks ==
    \/ StartRun
    \/ Spawn
    \/ \E i \in DOMAIN w : Receive(i)
    \/ EndIssues
    \/ EndPRs
    \/ \E i \in DOMAIN w : IssueProbe(i)
    \/ \E i \in DOMAIN w : PRProbe(i)
    \/ \E i \in DOMAIN w : Say(i)
    \/ \E i \in DOMAIN w : NoteLock(i)
    \/ \E i \in DOMAIN w : NoteUnlock(i)
    \/ \E i \in DOMAIN w : WriteAfterNotes(i)
    \/ \E i \in DOMAIN w : Commit(i)
    \/ \E i \in DOMAIN w : CountLock(i)
    \/ \E i \in DOMAIN w : CountUnlock(i)
    \/ MapCrash

SpecLocks == InitConc /\ [][NextLocks]_vars

\* ------------------------------------------------------------ properties
\* The candidate whose event is the source of worker i's bundle.
Source(i) == IF phase = "issues" THEN Cfg(i) ELSE Ic(i)

\* The event id a row of a table carries.
EventIDOf(tbl, row) == IF tbl = "events" THEN row.id ELSE row.event_id

\* A row the store holds under a synthetic event id (2^48 + E, E >= 0).
Synthetic(row) == row.event_id >= SyntheticOffset

\* Every row a bundle inserts is visible in db.
BundleVisible(db, stmts) ==
    \A k \in DOMAIN stmts :
        /\ stmts[k].op = "insert" => stmts[k].row \in db[stmts[k].tbl]
        /\ stmts[k].op = "insert_ignore" => HasKey(db, stmts[k].tbl, stmts[k].row)

\* C1: a step changes the committed tables only by making every row of the
\* bundle of one writer invocation visible at once; every other step, the
\* failure of a statement and the death of the process included, leaves
\* them as they were (all rows of a bundle or none).
AtomicBundle ==
    [][ \/ store' = store
        \/ \E i \in DOMAIN w :
              /\ w[i].pc = "commit"
              /\ w[i].tx = WriterStmts(i)
              /\ BundleVisible(store', w[i].tx) ]_vars

\* C1 witness: one writer invocation has committed its bundle whole, and the
\* process died in another after a row insert of its transaction had run;
\* that row is not in the committed tables.
AtomicBundleWitness ==
    \E i, j \in DOMAIN w :
        /\ w[i].pc = "aborted"
        /\ \E k \in DOMAIN w[i].tx :
              /\ w[i].tx[k].op = "insert"
              /\ w[i].tx[k].row \notin store[w[i].tx[k].tbl]
        /\ w[j].pc = "done"
        /\ w[j].calls = 1
        /\ \E r \in store.issues : Synthetic(r)

\* C2: while SyncIssuesState runs again on the batch of the run before it,
\* no step changes the committed tables.
IdempotentRun == [][ rerun => store' = store ]_vars

\* C2 witness: a manual run that wrote a bundle has been repeated to its end.
IdempotentRunWitness ==
    /\ rerun
    /\ manual
    /\ phase = "done"
    /\ \E r \in store.issues : Synthetic(r)

\* C3: every row a committed bundle adds to the entity, event, payload,
\* milestone and join tables carries the event id 2^48 + E, E >= 0 being the
\* real event id of the candidate the bundle was written for.
BundleEventID ==
    [][ \A i \in DOMAIN w :
          (w[i].pc = "commit" /\ w'[i].pc = "count") =>
              /\ Source(i).EventID >= 0
              /\ \A tbl \in Tables \ { "actors" } :
                    \A r \in store'[tbl] \ store[tbl] :
                        EventIDOf(tbl, r) = SyntheticOffset + Source(i).EventID ]_vars

\* C3 witness: a bundle with an entity row, an event, a payload, a milestone
\* and join rows is committed.
BundleEventIDWitness ==
    \E r \in store.issues :
        /\ Synthetic(r)
        /\ \E e \in store.events : e.id = r.event_id
        /\ \E pl \in store.payloads : pl.event_id = r.event_id
        /\ \E m \in store.milestones : m.event_id = r.event_id
        /\ \E l \in store.issues_labels : l.event_id = r.event_id
        /\ \E a \in store.issues_assignees : a.event_id = r.event_id

\* C4: in non-manual mode the issue table holds at most one row with a
\* synthetic event id for an issue id and an observation-second.
OneSyntheticPerSecond ==
    ~manual =>
        \A r1, r2 \in store.issues :
            ( /\ Synthetic(r1) /\ Synthetic(r2)
              /\ r1.id = r2.id
              /\ ToYMDHMSDate(r1.updated_at) = ToYMDHMSDate(r2.updated_at) )
            => r1 = r2

\* The observation-seconds of a candidate list.
Seconds(list) == { ToYMDHMSDate(list[k].CreatedAt) : k \in DOMAIN list }

\* C5: after non-manual normalization the list of every issue id holds
\* exactly one candidate per distinct second of its input list, in ascending
\* order of second, each of them a candidate of the input list.
OnePerSecond ==
    (phase = "issues" /\ ~manual) =>
        /\ DOMAIN issues = DOMAIN batch.issues
        /\ \A iid \in DOMAIN issues :
              /\ Seconds(issues[iid]) = Seconds(batch.issues[iid])
              /\ Len(issues[iid]) = Cardinality(Seconds(batch.issues[iid]))
              /\ \A k, l \in DOMAIN issues[iid] :
                    k < l => ToYMDHMSDate(issues[iid][k].CreatedAt)
                               < ToYMDHMSDate(issues[iid][l].CreatedAt)
              /\ \A k \in DOMAIN issues[iid] : issues[iid][k] \in Range(batch.issues[iid])

\* C5 witness: three candidates in two seconds have been normalized to two.
OnePerSecondWitness ==
    /\ phase = "issues"
    /\ ~manual
    /\ Len(batch.issues[IssueID]) = 3
    /\ Len(issues[IssueID]) = 2

Decides(i) == w[i].pc = "probe" /\ w'[i].pc \in { "write", "count" }
Counts(i) == w[i].pc = "count" /\ w'[i].pc = "send"

\* Bucket b, and no other, goes up by one.
Bumps(b) == updates' = [ updates EXCEPT ![b + 1] = @ + 1 ]

\* The stored rows of worker i's entity, and those its probe selects from.
StoredRows(i) ==
    IF phase = "issues" THEN { r \in store.issues : r.id = Cfg(i).IssueID }
    ELSE { r \in store.prs : r.id = Pr(i).ID }
ObservedAt(i) == IF phase = "issues" THEN Cfg(i).CreatedAt ELSE Pr(i).UpdatedAt
Probed(i) ==
    IF manual THEN StoredRows(i)
    ELSE { r \in StoredRows(i) : r.updated_at = ObservedAt(i) }

\* A PR row exists with the PR's id and the synthetic id of the source
\* event of worker i's PR, and another updated_at.
Collides(i) ==
    /\ phase = "prs"
    /\ \E r \in store.prs : /\ r.id = Pr(i).ID
                            /\ r.event_id = SyntheticOffset + Ic(i).EventID
                            /\ r.updated_at # Pr(i).UpdatedAt

\* The PR worker reaches its probe: no collision was found before it.
ProbeRuns(i) == manual \/ ~Collides(i)

\* C7: a worker whose probe finds no stored row (at the exact observation
\* time in non-manual mode, of the entity at all in manual mode) goes to the
\* writer with bucket 0; when it counts, it has invoked the writer exactly
\* once, and bucket 0 alone goes up by one.
NewGoesToWriter ==
    [][ \A i \in DOMAIN w :
          /\ (Decides(i) /\ ProbeRuns(i) /\ Probed(i) = { })
                => (w'[i].uidx = 0 /\ w'[i].pc = "write")
          /\ (Counts(i) /\ w[i].uidx = 0)
                => (w[i].calls = 1 /\ Bumps(0)) ]_vars

\* C7 witness: a PR worker of a manual run found no row of its PR, invoked
\* the writer once and counted bucket 0.
NewGoesToWriterWitness ==
    /\ phase = "prs"
    /\ manual
    /\ \E i \in DOMAIN w :
          /\ w[i].pc = "send"
          /\ w[i].uidx = 0
          /\ w[i].calls = 1
          /\ updates = << 1, 0, 0, 0, 0 >>
          /\ \E r \in store.prs : r.id = Pr(i).ID /\ Synthetic(r)

SecondOf(t) == IF t = NULL THEN NULL ELSE ToYMDHMSDate(t)

\* The ids the join tables hold under an event id.
StoredLabels(eid) == { r.label_id : r \in { x \in store.issues_labels : x.event_id = eid } }
StoredAssignees(eid) ==
    { r.assignee_id : r \in { x \in store.issues_assignees : x.event_id = eid } }
StoredPRAssignees(eid) ==
    { r.assignee_id : r \in { x \in store.prs_assignees : x.event_id = eid } }
StoredReviewers(eid) ==
    { r.requested_reviewer_id : r \in { x \in store.prs_reviewers : x.event_id = eid } }

IssueDiffers(cfg, row) ==
    \/ cfg.GhIssue.State # row.state
    \/ cfg.GhIssue.Title # row.title
    \/ cfg.GhIssue.Locked # row.locked
    \/ SecondOf(cfg.GhIssue.ClosedAt) # SecondOf(row.closed_at)
    \/ cfg.MilestoneID # row.milestone_id
    \/ cfg.AssigneeID # row.assignee_id
    \/ cfg.LabelsMap # StoredLabels(row.event_id)
    \/ cfg.AssigneesMap # StoredAssignees(row.event_id)

PRDiffers(ic, pr, row) ==
    \/ pr.State # row.state
    \/ pr.Title # row.title
    \/ SecondOf(pr.ClosedAt) # SecondOf(row.closed_at)
    \/ pr.Merged # row.merged
    \/ SecondOf(pr.MergedAt) # SecondOf(row.merged_at)
    \/ pr.MergedBy # row.merged_by_id
    \/ pr.Milestone # row.milestone_id
    \/ pr.Assignee # row.assignee_id
    \/ ic.LabelsMap # StoredLabels(row.event_id)
    \/ Range(pr.Assignees) # StoredPRAssignees(row.event_id)
    \/ Range(pr.RequestedReviewers) # StoredReviewers(row.event_id)

Differs(i) ==
    IF phase = "issues" THEN IssueDiffers(Cfg(i), Latest(Probed(i)))
    ELSE PRDiffers(Ic(i), Pr(i), Latest(Probed(i)))

\* A guard skips the candidate of worker i before the comparison.
Guarded(i) ==
    ~manual /\ (Collides(i) \/ Latest(Probed(i)).event_id > SyntheticOffset)

\* C9: a worker that finds a stored row and is not stopped by a guard goes
\* to the writer with bucket 3 if and only if a compared field differs
\* between its candidate and the row (times by their second, lists by their
\* ids), and goes on without the writer with bucket 2 otherwise; when it
\* counts bucket 3 it has invoked the writer once, when it counts bucket 2
\* it has not, and that bucket alone goes up by one.
WritesIffDiffers ==
    [][ \A i \in DOMAIN w :
          /\ (Decides(i) /\ Probed(i) # { } /\ ~Guarded(i))
                => IF Differs(i)
                   THEN w'[i].uidx = 3 /\ w'[i].pc = "write"
                   ELSE w'[i].uidx = 2 /\ w'[i].pc = "count" /\ store' = store
          /\ (Counts(i) /\ w[i].uidx = 3) => (w[i].calls = 1 /\ Bumps(3))
          /\ (Counts(i) /\ w[i].uidx = 2)
                => (w[i].calls = 0 /\ Bumps(2) /\ store' = store) ]_vars

\* C9 witness: a PR that differs from the stored row in its requested
\* reviewers alone has been written and counted in bucket 3.
WritesIffDiffersWitness ==
    /\ phase = "prs"
    /\ \E i \in DOMAIN w :
          /\ w[i].pc = "send"
          /\ w[i].uidx = 3
          /\ w[i].calls = 1
          /\ updates = << 0, 0, 0, 1, 0 >>
          /\ \E r \in store.prs :
                /\ r.event_id = RealEventID
                /\ r = PRRow(Ic(i), Pr(i), RealEventID)
                /\ Range(Pr(i).RequestedReviewers) # StoredReviewers(RealEventID)

\* C10: a PR worker that finds a PR row with its PR's id and the synthetic
\* id of its source event, but another updated_at, skips the candidate: it
\* goes on without the writer with bucket 4, and when it counts, it has not
\* invoked the writer and bucket 4 alone goes up by one.
CollisionSkips ==
    [][ \A i \in DOMAIN w :
          /\ (Decides(i) /\ Collides(i)) => (w'[i].uidx = 4 /\ w'[i].pc = "count")
          /\ (Counts(i) /\ w[i].uidx = 4) => (w[i].calls = 0 /\ Bumps(4)) ]_vars

\* C10 as amended: in non-manual mode, a PR worker that finds such a row
\* skips the candidate with bucket 4 and without the writer.
CollisionSkipsNonManual ==
    [][ \A i \in DOMAIN w :
          /\ (Decides(i) /\ ~manual /\ Collides(i))
                => (w'[i].uidx = 4 /\ w'[i].pc = "count" /\ store' = store)
          /\ (Counts(i) /\ w[i].uidx = 4)
                => (w[i].calls = 0 /\ Bumps(4) /\ store' = store) ]_vars

\* C10 witness: a non-manual PR worker has skipped its PR on a collision
\* and counted bucket 4.
CollisionSkipsNonManualWitness ==
    /\ phase = "prs"
    /\ ~manual
    /\ \E i \in DOMAIN w :
          /\ w[i].pc = "send"
          /\ w[i].uidx = 4
          /\ w[i].calls = 0
          /\ updates = << 0, 0, 0, 0, 1 >>
          /\ \E r \in store.prs : /\ r.id = Pr(i).ID
                                  /\ r.event_id = SyntheticOffset + Ic(i).EventID
                                  /\ r.updated_at # Pr(i).UpdatedAt

\* C11: the row a worker compares its candidate against is, in manual mode,
\* the row of the entity that no other row of the entity exceeds by
\* (updated_at, event_id), whatever its time; in non-manual mode it is the
\* row with the greatest event id among the rows of the entity whose
\* updated_at is the candidate's observation time; no such row, no
\* comparison.
ComparedRow ==
    [][ \A i \in DOMAIN w :
          (Decides(i) /\ ProbeRuns(i)) =>
              IF manual
              THEN IF StoredRows(i) = { } THEN w'[i].gha = NULL
                   ELSE \E r \in StoredRows(i) :
                          /\ w'[i].gha = r.event_id
                          /\ \A o \in StoredRows(i) :
                                \/ o.updated_at < r.updated_at
                                \/ (o.updated_at = r.updated_at /\ o.event_id <= r.event_id)
              ELSE LET at == { r \in StoredRows(i) : r.updated_at = ObservedAt(i) }
                   IN IF at = { } THEN w'[i].gha = NULL
                      ELSE w'[i].gha = Max({ r.event_id : r \in at }) ]_vars

\* C11 witness: a manual worker has probed an entity with rows at two
\* times and compares against the later one, which is not at the time of
\* its candidate.
ComparedRowWitness ==
    /\ manual
    /\ \E i \in DOMAIN w :
          /\ w[i].pc \in { "write", "count" }
          /\ \E r, o \in StoredRows(i) :
                /\ w[i].gha = r.event_id
                /\ o.updated_at < r.updated_at
                /\ r.updated_at # ObservedAt(i)

\* ---- the phases and their goroutines
RECURSIVE SumSeq(_)
SumSeq(s) == IF s = << >> THEN 0 ELSE Head(s) + SumSeq(Tail(s))

\* The candidates the issue phase is to handle, and the PRs of the PR phase.
IssueItems ==
    UNION { { << iid, idx >> : idx \in DOMAIN issues[iid] } : iid \in DOMAIN issues }
PRItems == { << iid, 0 >> : iid \in DOMAIN batch.prs }
Items == IF phase = "issues" THEN IssueItems ELSE PRItems

\* The goroutines started and not yet received from.
InFlight == { i \in DOMAIN w : w[i].pc # "done" }

\* The step that ends a phase with its summary.
EndsPhase == phase \in { "issues", "prs" } /\ Len(printed') = Len(printed) + 1

\* The tables only the PR writer writes, and those only the issue writer.
PRTables == { "prs", "prs_assignees", "prs_reviewers" }
IssueTables == { "issues", "issues_labels", "issues_assignees" }

\* C12: the PR phase starts only when every issue worker has been started
\* and has posted its outcome, its bundle (if any) committed: until then
\* no goroutine of the PR phase exists and no PR row is written, and from
\* then on no issue bundle is committed.
PhaseOrder ==
    [][ /\ (phase = "issues" /\ phase' = "prs")
              => /\ Len(w) = Cardinality(IssueItems)
                 /\ \A i \in DOMAIN w : w[i].pc = "done" /\ w[i].tx = << >>
                 /\ checked = Cardinality(IssueItems)
                 /\ w' = << >>
        /\ (phase # "prs") => \A t \in PRTables : store'[t] = store[t]
        /\ (phase = "prs") => \A t \in IssueTables : store'[t] = store[t] ]_vars

\* C12 witness: with two goroutines at a time, the PR phase writes a PR
\* bundle after the issue phase has handled three candidates and committed
\* a bundle.
PhaseOrderWitness ==
    /\ phase = "prs"
    /\ thrN = 2
    /\ printed[1].checked = 3
    /\ \E r \in store.issues : Synthetic(r)
    /\ \E r \in store.prs : Synthetic(r)

\* C13: in either phase the goroutines started and not yet received from
\* are at most thrN.
BackPressure ==
    phase \in { "issues", "prs" } => Cardinality(InFlight) <= thrN

\* C13 witness: thrN goroutines are in flight, none of them received from,
\* and a candidate waits to be dispatched.
BackPressureWitness ==
    /\ phase = "issues"
    /\ thrN = 2
    /\ Cardinality(InFlight) = 2
    /\ Len(w) < Len(work)
    /\ \A i \in InFlight : w[i].pc = "send"

\* C14: the goroutines of a phase handle the candidates one to one; a step
\* raises the counters only as the count of one goroutine, by one in one
\* bucket; the orchestrator receives one signal at a time; and when the
\* phase ends every goroutine has counted its bucket once and been received
\* from once: every bucket holds the number of goroutines that chose it and
\* the signals received are as many as the candidates.
OneWorkerOneOutcome ==
    [][ /\ phase \in { "issues", "prs" }
              => /\ Len(work) = Cardinality(Items)
                 /\ { << work[k].iid, work[k].idx >> : k \in DOMAIN work } = Items
        /\ (updates' # updates /\ phase' = phase)
              => \E i \in DOMAIN w :
                    /\ Counts(i)
                    /\ Bumps(w[i].uidx)
                    /\ \A j \in DOMAIN w \ { i } : w'[j] = w[j]
        /\ (checked' # checked /\ phase' = phase)
              => /\ checked' = checked + 1
                 /\ \E i \in DOMAIN w :
                       /\ w[i].pc = "send" /\ w'[i].pc = "done"
                       /\ \A j \in DOMAIN w \ { i } : w'[j] = w[j]
        /\ EndsPhase
              => /\ Len(w) = Cardinality(Items)
                 /\ \A b \in 0 .. Len(updates) - 1 :
                       updates[b + 1] = Cardinality({ i \in DOMAIN w : w[i].uidx = b })
                 /\ SumSeq(updates) = Cardinality(Items)
                 /\ checked = Cardinality(Items) ]_vars

\* C14 witness: a run has ended whose issue phase handled three candidates
\* on two exit paths and whose PR phase handled two PRs.
OneWorkerOneOutcomeWitness ==
    /\ phase = "done"
    /\ Len(printed) = 2
    /\ printed[1].checked = 3
    /\ printed[1].updates[1] > 0
    /\ printed[1].updates[3] > 0
    /\ SumSeq(printed[2].updates) = 2

\* C15: when no database call fails, the run reaches its end with the
\* summaries of both phases printed, whatever thrN; the summary of a phase
\* is printed only when every candidate of the phase has been dispatched
\* and every goroutine has posted its signal and been received from (none
\* stays blocked on the channel), and then the signals received and the
\* sum of the outcome buckets both equal the number of candidates.
EachPhaseTerminates ==
    /\ <>(phase = "done" /\ Len(printed) = 2)
    /\ [][ EndsPhase
              => /\ Len(w) = Cardinality(Items)
                 /\ \A i \in DOMAIN w : w[i].pc = "done"
                 /\ checked = Cardinality(Items)
                 /\ SumSeq(updates) = Cardinality(Items) ]_vars

\* C16: no two goroutines are at once inside sections in which they write
\* the map infos, and no two at once inside sections in which they write
\* the counters: the sections of each structure exclude one another.
ExclusiveUpdates ==
    \A i, j \in DOMAIN w :
        i # j => /\ ~(InInfos(i) /\ InInfos(j))
                 /\ ~(InUpdates(i) /\ InUpdates(j))

\* ---- the order of the statements of a writer transaction
JoinTables == { "issues_labels", "issues_assignees", "prs_assignees", "prs_reviewers" }

\* The groups in the order actors, milestone, entity snapshot, event,
\* payload, join rows.
Group(s) ==
    CASE s.tbl = "actors" -> 1
      [] s.tbl = "milestones" -> 2
      [] s.tbl \in { "issues", "prs" } -> 3
      [] s.tbl = "events" -> 4
      [] s.tbl = "payloads" -> 5
      [] s.tbl \in JoinTables -> 6

\* The groups in the order actors, entity snapshot, milestone, event,
\* payload, join rows.
IssueGroup(s) ==
    CASE s.tbl = "issues" -> 2
      [] s.tbl = "milestones" -> 3
      [] OTHER -> Group(s)

\* The transactions the writers have run to their last statement.
AtCommit == { i \in DOMAIN w : w[i].pc = "commit" }

\* The transaction is one of the issue writer (of the PR writer otherwise).
OfIssueWriter(tx) == \E k \in DOMAIN tx : tx[k].tbl = "issues"

\* The user a join row of a PR names.
Member(s) ==
    IF s.tbl = "prs_assignees" THEN s.row.assignee_id ELSE s.row.requested_reviewer_id

ActorIDs == { a.id : a \in store.actors }

IssueActors(r) ==
    ({ r.user_id, r.assignee_id, r.dup_actor_id } \ { NULL })
    \cup { j.assignee_id : j \in { x \in store.issues_assignees :
                                      x.issue_id = r.id /\ x.event_id = r.event_id } }

PRActors(r) ==
    ({ r.user_id, r.assignee_id, r.merged_by_id, r.dup_actor_id } \ { NULL })
    \cup { j.assignee_id : j \in { x \in store.prs_assignees :
                                      x.pull_request_id = r.id /\ x.event_id = r.event_id } }
    \cup { j.requested_reviewer_id : j \in { x \in store.prs_reviewers :
                                      x.pull_request_id = r.id /\ x.event_id = r.event_id } }

\* C18: every actor id declared by an issue row or a PR row with a
\* synthetic event id (user, assignee, merger, event actor, and the ids of
\* its assignee and requested-reviewer join rows) is the id of a row of the
\* actor table.
ActorsExist ==
    /\ \A r \in store.issues : Synthetic(r) => IssueActors(r) \subseteq ActorIDs
    /\ \A r \in store.prs : Synthetic(r) => PRActors(r) \subseteq ActorIDs

\* C19: no step deletes a row of the committed tables or changes a column
\* of one: every table only gains rows.
AppendOnly == [][ \A t \in Tables : store[t] \subseteq store'[t] ]_vars

\* C19 as amended: no step deletes a row, and the only column a step
\* changes in a row that exists is pull_request_id of a payload row, which
\* the commit of a PR bundle sets to the PR's id in the payload rows of its
\* issue id and its own synthetic event id.
AppendOnlyButPayloadLink ==
    [][ \A t \in Tables :
          \A r \in store[t] :
              \/ r \in store'[t]
              \/ /\ t = "payloads"
                 /\ phase = "prs"
                 /\ \E i \in DOMAIN w :
                       /\ w[i].pc = "commit" /\ w'[i].pc = "count"
                       /\ r.issue_id = Ic(i).GhIssue.ID
                       /\ r.event_id = SyntheticOffset + Ic(i).EventID
                       /\ [ r EXCEPT !.pull_request_id = Pr(i).ID ] \in store'[t]
                       /\ r \notin store'[t] ]_vars

\* C19 witness: the PR phase has committed a bundle under the event id of a
\* bundle of the issue phase, whose payload row now names the PR.
AppendOnlyButPayloadLinkWitness ==
    /\ phase = "prs"
    /\ \E i \in DOMAIN w :
          /\ w[i].pc = "count"
          /\ w[i].calls = 1
          /\ \E pl \in store.payloads :
                /\ pl.event_id = SyntheticOffset + Ic(i).EventID
                /\ pl.pull_request_id = Pr(i).ID
                /\ \E r \in store.issues : r.event_id = pl.event_id /\ r.id = pl.issue_id
                /\ \E r \in store.prs : r.event_id = pl.event_id /\ r.id = Pr(i).ID

\* C20: under SkipPDB no step changes a table and no goroutine has a
\* transaction, in either phase and either mode: the writer, when called,
\* returns at once; the worker still chooses the bucket its probe and its
\* comparison give, counts it, and the summary of a phase that ends holds
\* one outcome per candidate.
SkipWrites ==
    [][ skipPDB =>
          /\ store' = store
          /\ \A i \in DOMAIN w' : w'[i].tx = << >> /\ w'[i].pc # "commit"
          /\ \A i \in DOMAIN w :
                /\ (Decides(i) /\ phase = "issues")
                      => w'[i].uidx = IssueDecision(store, manual, Cfg(i))
                /\ (Decides(i) /\ phase = "prs")
                      => w'[i].uidx = PRDecision(store, manual, Ic(i), Pr(i))
                /\ (w[i].pc = "write" /\ w'[i].pc # "write" /\ phase' # "aborted")
                      => (w'[i].pc = "count" /\ w'[i].calls = w[i].calls + 1)
                /\ Counts(i) => Bumps(w[i].uidx)
          /\ EndsPhase => SumSeq(updates) = Cardinality(Items) ]_vars

\* C20 witness: a run under SkipPDB on an empty store has ended: the issue
\* and the PR were both classified as new, and the store is still empty.
SkipWritesWitness ==
    /\ skipPDB
    /\ phase = "done"
    /\ store = EmptyDB
    /\ Len(printed) = 2
    /\ printed[1].updates[1] = 1
    /\ printed[2].updates[1] = 1

\* ------------------------------------------------ the nullable fields
\* Worker i reached its comparisons: its probe found a row and the guard
\* for artificial rows did not return.
Compares(i) ==
    /\ phase \in { "issues", "prs" }
    /\ w[i].pc # "probe"
    /\ w[i].gha # NULL
    /\ (manual \/ ~IsArtificial(w[i].gha))

ComparedPR(i) == CHOOSE r \in store.prs : r.id = Pr(i).ID /\ r.event_id = w[i].gha

\* The nullable fields worker i compares: the flag the worker computes,
\* the remote value, the stored value, and whether the field is a time.
NullableFields(i) ==
    IF phase = "issues"
    THEN LET cfg == Cfg(i)
             gha == ComparedWith(i)
         IN { [ name |-> "closed_at", time |-> TRUE,
                api |-> cfg.GhIssue.ClosedAt, gha |-> gha.closed_at,
                flag |-> ChangedNullableTime(cfg.GhIssue.ClosedAt, gha.closed_at) ],
              [ name |-> "milestone_id", time |-> FALSE,
                api |-> cfg.MilestoneID, gha |-> gha.milestone_id,
                flag |-> ChangedNullable(cfg.MilestoneID, gha.milestone_id) ],
              [ name |-> "assignee_id", time |-> FALSE,
                api |-> cfg.AssigneeID, gha |-> gha.assignee_id,
                flag |-> ChangedNullable(cfg.AssigneeID, gha.assignee_id) ] }
    ELSE LET pr == Pr(i)
             gha == ComparedPR(i)
         IN { [ name |-> "merged", time |-> FALSE,
                api |-> pr.Merged, gha |-> gha.merged,
                flag |-> ChangedNullable(pr.Merged, gha.merged) ],
              [ name |-> "closed_at", time |-> TRUE,
                api |-> pr.ClosedAt, gha |-> gha.closed_at,
                flag |-> ChangedNullableTime(pr.ClosedAt, gha.closed_at) ],
              [ name |-> "merged_at", time |-> TRUE,
                api |-> pr.MergedAt, gha |-> gha.merged_at,
                flag |-> ChangedNullableTime(pr.MergedAt, gha.merged_at) ],
              [ name |-> "milestone_id", time |-> FALSE,
                api |-> pr.Milestone, gha |-> gha.milestone_id,
                flag |-> ChangedNullable(pr.Milestone, gha.milestone_id) ],
              [ name |-> "assignee_id", time |-> FALSE,
                api |-> pr.Assignee, gha |-> gha.assignee_id,
                flag |-> ChangedNullable(pr.Assignee, gha.assignee_id) ],
              [ name |-> "merged_by_id", time |-> FALSE,
                api |-> pr.MergedBy, gha |-> gha.merged_by_id,
                flag |-> ChangedNullable(pr.MergedBy, gha.merged_by_id) ] }

\* C21: for every nullable field a worker compares, the change flag is
\* false when both sides are null, true when exactly one side is null,
\* and, when both are set, true exactly when the values differ, two times
\* differing when they lie in different seconds.
NullableFlags ==
    \A i \in DOMAIN w :
       Compares(i) =>
          \A f \in NullableFields(i) :
             /\ (f.api = NULL /\ f.gha = NULL) => ~f.flag
             /\ ((f.api = NULL) # (f.gha = NULL)) => f.flag
             /\ (f.api # NULL /\ f.gha # NULL /\ ~f.time)
                   => (f.flag <=> f.api # f.gha)
             /\ (f.api # NULL /\ f.gha # NULL /\ f.time)
                   => (f.flag <=> \E s \in 0 .. MaxTick :
                                     /\ f.api \in s * TicksPerSec .. s * TicksPerSec + TicksPerSec - 1
                                     /\ f.gha \notin s * TicksPerSec .. s * TicksPerSec + TicksPerSec - 1)

\* C21 witness: a worker compares a time that is another tick of the
\* stored second and finds no change, and a worker compares a field that
\* is null on one side only.
NullableFlagsWitness ==
    \E i \in DOMAIN w :
       /\ Compares(i)
       /\ phase = "prs"
       /\ \E f \in NullableFields(i) :
             f.time /\ f.api # NULL /\ f.gha # NULL /\ f.api # f.gha /\ ~f.flag
       /\ \E f \in NullableFields(i) :
             f.api # NULL /\ f.gha = NULL /\ f.flag

\* ------------------------- SpecLists: the id lists of a PR on their inputs
MaxMembers == 3
MemberIDs == Users \cup { 10 }

\* The member lists of a remote PR: any order, with repetitions.
DupLists == UNION { [ 1 .. n -> MemberIDs ] : n \in 0 .. MaxMembers }

\* A store that holds the PR with a set of assignees and of reviewers, and
\* a batch with the PR at the same second, one of its lists drawn freely.
InitLists ==
    /\ \E S \in SUBSET MemberIDs, l \in DupLists, asg \in BOOLEAN :
          /\ store = GHAImport(RealIssue(BaseIssue),
                               << [ BasePR EXCEPT !.assignees = SortedSeq(S),
                                                  !.reviewers = SortedSeq(S) ] >>)
          /\ batch = OnePR(RealTime, 1, BaseIssue, RealTime,
                           IF asg THEN [ BasePR EXCEPT !.assignees = l,
                                                       !.reviewers = SortedSeq(S) ]
                           ELSE [ BasePR EXCEPT !.reviewers = l,
                                                !.assignees = SortedSeq(S) ])
    /\ manual \in BOOLEAN
    /\ skipPDB = FALSE
    /\ thrN = 1
    /\ InitRun

SpecLists == InitLists /\ [][Next]_vars

\* The decimal numerals of the member ids.
Numeral == (1 :> "1") @@ (2 :> "2") @@ (10 :> "10")

\* The distinct ids of a set in ascending order, joined by commas.
Canonical(S) ==
    LET n == Cardinality(S)
        q == CHOOSE q \in [ 1 .. n -> S ] : \A a, b \in 1 .. n : a < b => q[a] < q[b]
    IN CASE n = 0 -> ""
         [] n = 1 -> Numeral[q[1]]
         [] n = 2 -> Numeral[q[1]] \o "," \o Numeral[q[2]]
         [] n = 3 -> Numeral[q[1]] \o "," \o Numeral[q[2]] \o "," \o Numeral[q[3]]

\* The member lists of the PRs of the batch.
BatchLists ==
    UNION { { batch.prs[iid].Assignees, batch.prs[iid].RequestedReviewers } :
              iid \in DOMAIN batch.prs }

\* C22: the canonical id list of a PR's assignees and of its requested
\* reviewers depends only on the set of member ids: every reordering and
\* every repetition of the members gives the same string, the distinct
\* ids ascending, joined by commas without a trailing comma, empty for
\* no member; so a worker that compares finds the list changed exactly
\* when the stored set of ids is another set.
CanonicalList ==
    /\ \A members \in BatchLists :
          /\ ApiIDString(members) = Canonical(Range(members))
          /\ \A l \in DupLists :
                Range(l) = Range(members) => ApiIDString(l) = ApiIDString(members)
    /\ \A i \in DOMAIN w :
          (Compares(i) /\ phase = "prs") =>
             /\ (JoinIDs(GhaPRAssignees(store, w[i].gha)) # ApiIDString(Pr(i).Assignees))
                   <=> (Range(GhaPRAssignees(store, w[i].gha)) # Range(Pr(i).Assignees))
             /\ (JoinIDs(GhaRequestedReviewers(store, w[i].gha))
                    # ApiIDString(Pr(i).RequestedReviewers))
                   <=> (Range(GhaRequestedReviewers(store, w[i].gha))
                          # Range(Pr(i).RequestedReviewers))

\* C22 witness: a worker compared a PR whose assignees come unordered and
\* repeated, with a two-digit id, against the stored set of the same ids,
\* and found nothing to write.
CanonicalListWitness ==
    \E i \in DOMAIN w :
       /\ Compares(i)
       /\ phase = "prs"
       /\ Pr(i).Assignees = << 10, 2, 10 >>
       /\ ApiIDString(Pr(i).Assignees) = "2,10"
       /\ GhaPRAssignees(store, w[i].gha) = << 2, 10 >>
       /\ w[i].pc = "count"
       /\ w[i].calls = 0

\* ------------------------------------------------- the payload's PR link
\* C23: when the bundle of a PR commits, for issue id I and synthetic event
\* id X, every payload row of (I, X) names the PR from then on, the row the
\* issue phase wrote under X with no PR included.
PayloadLinked ==
    [][ \A i \in DOMAIN w :
          (phase = "prs" /\ w[i].pc = "commit" /\ w'[i].pc = "count") =>
             \A pl \in store'.payloads :
                (pl.issue_id = Ic(i).IssueID
                   /\ pl.event_id = SyntheticOffset + Ic(i).EventID)
                   => pl.pull_request_id = Pr(i).ID ]_vars

\* C23 witness: the issue phase wrote a new bundle, whose payload named no
\* PR; the PR phase committed its bundle under the same event id, and the
\* payload of the issue and that event names the PR.
PayloadLinkedWitness ==
    /\ phase = "prs"
    /\ Len(printed) = 1
    /\ printed[1].updates[1] = 1
    /\ \E i \in DOMAIN w :
          /\ w[i].pc = "count"
          /\ w[i].calls = 1
          /\ \E pl \in store.payloads :
                /\ pl.issue_id = Ic(i).IssueID
                /\ pl.event_id = SyntheticOffset + Ic(i).EventID
                /\ pl.pull_request_id = Pr(i).ID
          /\ \A ev \in store.events : ev.id >= SyntheticOffset => ev.id = SyntheticOffset + Ic(i).EventID

\* ------------------------------------------------- insert-if-absent
\* The tables whose inserts are to leave an existing key alone.
IfAbsentTables == { "actors", "milestones", "events", "payloads" } \cup JoinTables

\* The statements of worker i's transaction: those its writer is about to
\* issue, or has issued and not committed.
TxStmts(i) == IF w[i].pc = "write" THEN WriterStmts(i) ELSE w[i].tx

InWriter == { i \in DOMAIN w : phase \in { "issues", "prs" } /\ ~skipPDB /\ w[i].pc \in { "write", "commit" } }

\* C24: every insert of a writer into the actor, milestone, event, payload
\* and join tables is insert-if-absent: when the statements before it of
\* the transaction have run and a row of its key exists, it returns,
\* and it changes nothing.
InsertIfAbsent ==
    \A i \in InWriter :
       \A k \in DOMAIN TxStmts(i) :
          LET s == TxStmts(i)[k]
              before == ExecAll(store, SubSeq(TxStmts(i), 1, k - 1))
          IN (s.op \in { "insert", "insert_ignore" } /\ s.tbl \in IfAbsentTables
                /\ before.ok /\ HasKey(before.db, s.tbl, s.row))
                => ExecSQLTx(before.db, s) = [ ok |-> TRUE, db |-> before.db ]

\* ---------------------------------------------------------- redaction
\* The login columns of a row of table t: the user each is the login of
\* (NULL for none) and the value stored.  The actor columns of the rows
\* that carry no actor id are those of the actor of the source event.
LoginColumns(t, r) ==
    CASE t = "actors" -> { [ user |-> r.id, login |-> r.login ] }
      [] t = "issues" -> { [ user |-> r.dup_actor_id, login |-> r.dup_actor_login ],
                           [ user |-> r.user_id, login |-> r.dup_user_login ],
                           [ user |-> r.assignee_id, login |-> r.dupn_assignee_login ] }
      [] t = "prs" -> { [ user |-> r.dup_actor_id, login |-> r.dup_actor_login ],
                        [ user |-> r.user_id, login |-> r.dup_user_login ],
                        [ user |-> r.assignee_id, login |-> r.dupn_assignee_login ],
                        [ user |-> r.merged_by_id, login |-> r.dupn_merged_by_login ] }
      [] t = "events" -> { [ user |-> r.actor_id, login |-> r.dup_actor_login ] }
      [] t = "payloads" -> { [ user |-> r.dup_actor_id, login |-> r.dup_actor_login ] }
      [] t = "milestones" ->
           { [ user |-> EventActor(r.event_id - SyntheticOffset), login |-> r.dup_actor_login ],
             [ user |-> r.creator_id, login |-> r.dupn_creator_login ] }
      [] t = "issues_labels" ->
           { [ user |-> EventActor(r.event_id - SyntheticOffset), login |-> r.dup_actor_login ] }
      [] OTHER -> { }

\* C25: no login of the hide-set is stored verbatim by a writer: every
\* login column of every row a step writes holds the redaction of the
\* login of its user, which is that login itself when it is not hidden
\* and never a login of the hide-set.
Redaction ==
    [][ \A t \in Tables :
          \A r \in store'[t] \ store[t] :
             \A c \in LoginColumns(t, r) :
                /\ c.login \notin HideSet
                /\ c.user # NULL =>
                      /\ c.login = MaybeHide(Login(c.user))
                      /\ Login(c.user) \notin HideSet => c.login = Login(c.user)
                      /\ Login(c.user) \in HideSet => c.login # Login(c.user) ]_vars

\* C25 witness: a committed synthetic issue row of a hidden assignee and
\* a user who is not hidden, with the actor rows of both.
RedactionWitness ==
    \E r \in store.issues :
       /\ Synthetic(r)
       /\ r.assignee_id # NULL
       /\ Login(r.assignee_id) \in HideSet
       /\ r.dupn_assignee_login = "anon"
       /\ r.user_id # NULL
       /\ r.dup_user_login = Login(r.user_id)
       /\ \E a \in store.actors : a.id = r.assignee_id /\ a.login = "anon"
       /\ \E a \in store.actors : a.id = r.user_id /\ a.login = Login(r.user_id)

\* --------------------------- SpecAPI: the helpers around the remote calls
MaxWords == 4
MaxLimit == 2

\* The text of an error, word by word.
Words == { "404", "Not", "Found", "500" }
Texts == UNION { [ 1 .. n -> Words ] : n \in 0 .. MaxWords }

\* An error value: nil, or an error of a dynamic type with a text.
NilError == [ nil |-> TRUE ]
ErrorTypes == { "RateLimitError", "AbuseRateLimitError", "ErrorResponse" }
Errors ==
    { NilError } \cup { [ nil |-> FALSE, type |-> k, text |-> t ] : k \in ErrorTypes, t \in Texts }

\* The signals of the classifier.
Abuse == "abuse"
NotFound == "not_found"

\* s begins with substr.
HasPrefix(s, substr) == Len(substr) <= Len(s) /\ SubSeq(s, 1, Len(substr)) = substr

\* strings.Contains: substr occurs in s.
Contains(s, substr) ==
    \E i \in 0 .. Len(s) - Len(substr) : SubSeq(s, i + 1, i + Len(substr)) = substr

\* HandlePossibleError(err, cfg, info): the signal it returns and what it
\* logs, or the exit status with which it ends the process.
HandlePossibleError(err) ==
    IF ~err.nil
    THEN LET rate == err.type = "RateLimitError"
             abuse == err.type = "AbuseRateLimitError"
         IN IF (abuse \/ rate) /\ rate
            THEN [ returns |-> TRUE, signal |-> "rate", log |-> "Rate limit", exit |-> NULL ]
            ELSE IF (abuse \/ rate) /\ abuse
            THEN [ returns |-> TRUE, signal |-> Abuse, log |-> "Abuse detected", exit |-> NULL ]
            ELSE IF Contains(err.text, << "404", "Not", "Found" >>)
            THEN [ returns |-> TRUE, signal |-> NotFound, log |-> "Not found", exit |-> NULL ]
            ELSE [ returns |-> FALSE, signal |-> "", log |-> "error", exit |-> 0 ]
    ELSE [ returns |-> TRUE, signal |-> "", log |-> "", exit |-> NULL ]

\* What gc.RateLimits hands back: a rate-limit object (or nil) and an error
\* (or nil), each whatever the other is.
Rates == [ Limit : 1 .. MaxLimit, Remaining : 0 .. MaxLimit, Reset : Times ]
NilRateLimits == [ nil |-> TRUE ]
RateLimits ==
    { NilRateLimits } \cup { [ nil |-> FALSE, Core |-> c, Search |-> sr ] : c, sr \in Rates }
CallErrors == { NilError, [ nil |-> FALSE, type |-> "ErrorResponse", text |-> << "500" >> ] }

\* The result of GetRateLimits when no rate-limit object came back.
NoLimits == << -1, -1, 5 * TicksPerSec >>

\* The limits of the core quota whatever was asked for.
CoreLimits(rl, err, core, now) ==
    IF rl.nil THEN NoLimits
    ELSE << rl.Core.Limit, rl.Core.Remaining, rl.Core.Reset - now + TicksPerSec >>

\* GetRateLimits(gctx, gc, core) on the (rl, err) of gc.RateLimits at time
\* now: the error is printed and decides nothing.
GetRateLimits(rl, err, core, now) ==
    IF rl.nil THEN NoLimits
    ELSE IF core
    THEN << rl.Core.Limit, rl.Core.Remaining, rl.Core.Reset - now + TicksPerSec >>
    ELSE << rl.Search.Limit, rl.Search.Remaining, rl.Search.Reset - now + TicksPerSec >>

\* A call of one of the helpers on its inputs.
InitAPI ==
    /\ \/ \E rl \in RateLimits, err \in CallErrors, core \in BOOLEAN, now \in Times :
             gc = [ fn |-> "GetRateLimits", pc |-> "call",
                    rl |-> rl, err |-> err, core |-> core, now |-> now ]
       \/ \E err \in Errors :
             gc = [ fn |-> "HandlePossibleError", pc |-> "call", err |-> err ]
    /\ batch = [ issues |-> << >>, prs |-> << >> ]
    /\ store = EmptyDB
    /\ manual = FALSE
    /\ skipPDB = FALSE
    /\ thrN = 1
    /\ issues = batch.issues
    /\ phase = "start"
    /\ work = << >>
    /\ w = << >>
    /\ nThreads = 0
    /\ checked = 0
    /\ updates = << 0, 0, 0, 0 >>
    /\ printed = << >>
    /\ run = 1
    /\ rerun = FALSE
    /\ updatesMutex = 0
    /\ infosMutex = 0
    /\ why = ""
    /\ what = << >>
    /\ infos = NoInfos

\* GetRateLimits from its call to its return.
RateLimitsCall ==
    /\ gc.fn = "GetRateLimits"
    /\ gc.pc = "call"
    /\ gc' = [ fn |-> gc.fn, pc |-> "returned", rl |-> gc.rl, err |-> gc.err,
               core |-> gc.core, now |-> gc.now,
               out |-> GetRateLimits(gc.rl, gc.err, gc.core, gc.now) ]
    /\ UNCHANGED << store, batch, manual, skipPDB, thrN, issues, phase, work, w, nThreads,
                    checked, updates, printed, run, rerun, mutexes, reasons >>

\* HandlePossibleError from its call to its return, or to the exit of the
\* process.
PossibleErrorCall ==
    /\ gc.fn = "HandlePossibleError"
    /\ gc.pc = "call"
    /\ LET out == HandlePossibleError(gc.err)
       IN gc' = [ fn |-> gc.fn, pc |-> IF out.returns THEN "returned" ELSE "exited",
                  err |-> gc.err, out |-> out ]
    /\ UNCHANGED << store, batch, manual, skipPDB, thrN, issues, phase, work, w, nThreads,
                    checked, updates, printed, run, rerun, mutexes, reasons >>

NextAPI == RateLimitsCall \/ PossibleErrorCall

SpecAPI == InitAPI /\ [][NextAPI]_vars

\* The words 404 Not Found stand in a text one after the other.
SaysNotFound(text) ==
    \E k \in DOMAIN text :
       /\ k + 2 \in DOMAIN text
       /\ text[k] = "404"
       /\ text[k + 1] = "Not"
       /\ text[k + 2] = "Found"

\* C26: HandlePossibleError classifies every error: nil returns the empty
\* signal and the process goes on; a rate-limit error returns "rate"; an
\* abuse-throttle error returns the abuse signal; any other error whose
\* text contains 404 Not Found returns the not-found signal; every other
\* error is logged and ends the process with status 0, without a return.
ErrorClassified ==
    (gc.fn = "HandlePossibleError" /\ gc.pc # "call") =>
       LET e == gc.err
           o == gc.out
           signalled(sig) == gc.pc = "returned" /\ o.returns /\ o.signal = sig /\ o.exit = NULL
       IN /\ e.nil => signalled("")
          /\ (~e.nil /\ e.type = "RateLimitError") => signalled("rate")
          /\ (~e.nil /\ e.type = "AbuseRateLimitError") => signalled(Abuse)
          /\ (~e.nil /\ e.type = "ErrorResponse" /\ SaysNotFound(e.text))
                => signalled(NotFound)
          /\ (~e.nil /\ e.type = "ErrorResponse" /\ ~SaysNotFound(e.text))
                => (gc.pc = "exited" /\ ~o.returns /\ o.exit = 0 /\ o.log = "error")

\* C26 witness: the process has exited with status 0 on an error that is
\* neither a rate limit nor an abuse and whose text has the three words,
\* but not one after the other.
ErrorClassifiedWitness ==
    /\ gc.fn = "HandlePossibleError"
    /\ gc.pc = "exited"
    /\ gc.err.text = << "404", "500", "Not", "Found" >>
    /\ gc.out.exit = 0

\* The limits of the quota the caller selected, with the time to its reset
\* and one second.
Selected(g) ==
    LET q == IF g.core THEN g.rl.Core ELSE g.rl.Search
    IN << q.Limit, q.Remaining, (q.Reset - g.now) + TicksPerSec >>

\* C27 as stated: when the rate-limit call returns an error GetRateLimits
\* returns (-1, -1, 5 seconds), and otherwise the limit, the remaining
\* quota and the time until reset plus one second of the selected quota.
SentinelOnError ==
    (gc.fn = "GetRateLimits" /\ gc.pc = "returned") =>
       /\ ~gc.err.nil => gc.out = << -1, -1, 5 * TicksPerSec >>
       /\ gc.err.nil => (~gc.rl.nil /\ gc.out = Selected(gc))

\* C27: GetRateLimits returns (-1, -1, 5 seconds) exactly when the
\* rate-limit call handed back no rate-limit object, with or without an
\* error; when it handed one back, GetRateLimits returns the limit, the
\* remaining quota and the time until reset plus one second of the
\* selected quota, an error of the call being printed only.
SentinelOnNoLimits ==
    (gc.fn = "GetRateLimits" /\ gc.pc = "returned") =>
       /\ gc.rl.nil => gc.out = << -1, -1, 5 * TicksPerSec >>
       /\ ~gc.rl.nil => gc.out = Selected(gc)

\* C27 witness: the call handed back an object and an error, and
\* GetRateLimits returned the search quota, which is not the core quota.
SentinelOnNoLimitsWitness ==
    /\ gc.fn = "GetRateLimits"
    /\ gc.pc = "returned"
    /\ ~gc.err.nil
    /\ ~gc.rl.nil
    /\ ~gc.core
    /\ gc.rl.Core # gc.rl.Search
    /\ gc.out = << gc.rl.Search.Limit, gc.rl.Search.Remaining,
                   gc.rl.Search.Reset - gc.now + TicksPerSec >>

\* ------------------------------------------------- the guard on minted ids
\* C28: every id a writer mints passes the test the workers apply to a
\* stored event id, whatever the real event id it was minted from, 0
\* included, and the id of no row of the event stream passes it.
MintedRecognized ==
    [][ \A t \in { "issues", "prs" } :
          /\ \A r \in store'[t] \ store[t] : IsArtificial(r.event_id)
          /\ \A r \in store[t] : r.event_id < SyntheticOffset => ~IsArtificial(r.event_id) ]_vars

\* ------------------------------------------------- fresh synthetic ids
\* The workers of the phase that call the writer.
Writers == { i \in DOMAIN w : phase \in { "issues", "prs" } /\ ~skipPDB /\ w[i].pc # "probe" /\ CallsWriter(w[i].uidx) }

\* The key of the entity snapshot worker i's writer inserts.
SnapshotKey(i) ==
    IF phase = "issues"
    THEN << Cfg(i).IssueID, ArtificialEventID(Cfg(i)) >>
    ELSE << Pr(i).ID, ArtificialEventID(Ic(i)) >>

\* C29: under every interleaving of the workers of a phase, no two workers
\* insert an entity snapshot with the same entity id and synthetic event
\* id, two candidates of one issue id at different seconds included.
FreshSnapshots ==
    \A i, j \in Writers : i # j => SnapshotKey(i) # SnapshotKey(j)

\* The candidates of every issue id of the batch come from different
\* source events.
DistinctEventIDs ==
    \A iid \in DOMAIN batch.issues :
       \A k, l \in DOMAIN batch.issues[iid] :
          k # l => batch.issues[iid][k].EventID # batch.issues[iid][l].EventID

\* C29, for candidates of different source events: under every
\* interleaving of the workers of a phase no two workers insert an entity
\* snapshot with the same entity id and synthetic event id, and no plain
\* insert of a writer meets an existing key, two candidates of one issue
\* id at different seconds included.
FreshSnapshotsOfDistinctEvents ==
    DistinctEventIDs =>
       /\ \A i, j \in Writers : i # j => SnapshotKey(i) # SnapshotKey(j)
       /\ \A i \in InWriter :
             \A k \in DOMAIN TxStmts(i) :
                LET s == TxStmts(i)[k]
                    before == ExecAll(store, SubSeq(TxStmts(i), 1, k - 1))
                IN (s.op = "insert" /\ before.ok) => ~HasKey(before.db, s.tbl, s.row)

\* C29 witness: two workers hold open transactions at once for two
\* candidates of one issue id at different seconds and of different events.
FreshSnapshotsOfDistinctEventsWitness ==
    /\ DistinctEventIDs
    /\ phase = "issues"
    /\ \E i, j \in DOMAIN w :
          /\ i # j
          /\ w[i].pc = "commit"
          /\ w[j].pc = "commit"
          /\ Cfg(i).IssueID = Cfg(j).IssueID
          /\ ToYMDHMSDate(Cfg(i).CreatedAt) # ToYMDHMSDate(Cfg(j).CreatedAt)
          /\ SnapshotKey(i) # SnapshotKey(j)

\* ------------------------------------ one event and payload per synthetic id
\* C30: after any sequence of runs there is at most one event row and at
\* most one payload row per synthetic event id; and when the PR phase
\* writes a bundle for the source event of a bundle of the issue phase,
\* its inserts of the event and of the payload are ignored, and its commit
\* leaves the event row as the issue phase wrote it and the payload row as
\* well but for pull_request_id.
OneEventOnePayload ==
    [][ /\ \A e1, e2 \in store'.events :
              (e1.id >= SyntheticOffset /\ e1.id = e2.id) => e1 = e2
        /\ \A p1, p2 \in store'.payloads :
              (p1.event_id >= SyntheticOffset /\ p1.event_id = p2.event_id) => p1 = p2
        /\ \A i \in InWriter :
              phase = "prs" =>
                 \A k \in DOMAIN TxStmts(i) :
                    LET s == TxStmts(i)[k]
                        before == ExecAll(store, SubSeq(TxStmts(i), 1, k - 1))
                    IN (s.op # "update" /\ s.tbl \in { "events", "payloads" }
                          /\ before.ok /\ HasKey(before.db, s.tbl, s.row))
                          => ExecSQLTx(before.db, s) = [ ok |-> TRUE, db |-> before.db ]
        /\ \A i \in DOMAIN w :
              (phase = "prs" /\ w[i].pc = "commit" /\ w'[i].pc = "count") =>
                 /\ \A e \in store.events :
                       e.id = ArtificialEventID(Ic(i)) => store'.events = store.events
                 /\ \A pl \in store.payloads :
                       pl.event_id = ArtificialEventID(Ic(i)) =>
                          store'.payloads
                             = (store.payloads \ { pl })
                                  \cup { [ pl EXCEPT !.pull_request_id =
                                             IF pl.issue_id = Ic(i).IssueID
                                             THEN Pr(i).ID ELSE @ ] } ]_vars

\* C30 witness: in a later run the PR phase has committed a bundle under
\* the synthetic id of a bundle the issue phase wrote; there is one event
\* row and one payload row of that id, the payload naming the PR.
OneEventOnePayloadWitness ==
    /\ phase = "prs"
    /\ \E i \in DOMAIN w :
          /\ w[i].pc = "count"
          /\ w[i].calls = 1
          /\ \E r \in store.issues : r.event_id = ArtificialEventID(Ic(i))
          /\ \E r \in store.prs : r.event_id = ArtificialEventID(Ic(i))
          /\ Cardinality({ e \in store.events : e.id = ArtificialEventID(Ic(i)) }) = 1
          /\ Cardinality({ pl \in store.payloads :
                             /\ pl.event_id = ArtificialEventID(Ic(i))
                             /\ pl.pull_request_id = Pr(i).ID }) = 1

\* ------------------------------------------------- the milestone of a bundle
\* C31: a bundle whose issue row or PR row carries a milestone id M holds a
\* milestone row of id M under the bundle's synthetic event id, written by
\* a writer no statement of which fails for the milestone; a bundle whose
\* snapshot has no milestone adds no milestone row.
MilestoneUpserted ==
    [][ /\ \A i \in InWriter :
              \A k \in DOMAIN TxStmts(i) : TxStmts(i)[k] # Panic
        /\ \A i \in DOMAIN w :
              (w[i].pc = "commit" /\ w'[i].pc = "count") =>
                 \A t \in { "issues", "prs" } :
                    \A r \in store'[t] \ store[t] :
                       /\ r.milestone_id # NULL =>
                             \E m \in store'.milestones :
                                m.id = r.milestone_id /\ m.event_id = r.event_id
                       /\ r.milestone_id = NULL =>
                             store'.milestones = store.milestones ]_vars

\* ------------------------------------------------- the skips of manual mode
\* Buckets 1 and 4 of a counter array are zero.
NoSkips(u) == u[2] = 0 /\ (Len(u) = 5 => u[5] = 0)

\* No skip was counted or chosen: in the counters, in the summaries, and
\* in the bucket of any goroutine.
NoSkipTaken ==
    /\ NoSkips(updates)
    /\ \A k \in DOMAIN printed : NoSkips(printed[k].updates)
    /\ \A i \in DOMAIN w : w[i].uidx # NULL => w[i].uidx \in { 0, 2, 3 }

\* C32: in manual mode neither the skip for an artificial row nor the
\* collision skip of the PR phase is taken: buckets 1 and 4 stay zero in
\* every run, and at the end of a phase every candidate is counted in
\* bucket 0, 2 or 3, also when the latest stored row of the entity has a
\* synthetic event id.
ManualNeverSkips ==
    [][ manual =>
          /\ NoSkipTaken'
          /\ EndsPhase => updates[1] + updates[3] + updates[4] = Cardinality(Items) ]_vars

\* C32 witness: in the second manual run a worker compared its candidate
\* with a stored row of a synthetic event id and chose bucket 2 or 3.
ManualNeverSkipsWitness ==
    /\ manual
    /\ run = 2
    /\ \E i \in DOMAIN w :
          /\ w[i].pc = "count"
          /\ w[i].gha # NULL
          /\ IsArtificial(w[i].gha)
          /\ w[i].uidx \in { 2, 3 }

\* ------------------------------------------------- write, then compare
\* The detector of worker i's phase, on database db, for i's candidate
\* against the snapshot row of db under the id i's writer minted.
ChangedAfterWrite(i, db) ==
    IF phase = "issues"
    THEN \E r \in db.issues :
            /\ r.id = Cfg(i).IssueID
            /\ r.event_id = ArtificialEventID(Cfg(i))
            /\ IssueChangedAnything(db, Cfg(i), r)
    ELSE \E r \in db.prs :
            /\ r.id = Pr(i).ID
            /\ r.event_id = ArtificialEventID(Ic(i))
            /\ PRChangedAnything(db, Ic(i), Pr(i), r)

\* C33: right after a writer commits the bundle of a candidate, the
\* detector run for that candidate against the row just written finds no
\* change in any field, the label, assignee and reviewer lists read from
\* the join tables under the new synthetic event id included.
WriteThenCompare ==
    [][ \A i \in DOMAIN w :
          (phase \in { "issues", "prs" } /\ w[i].pc = "commit" /\ w'[i].pc = "count")
             => ~ChangedAfterWrite(i, store') ]_vars

\* ------------------------------------------------- the reasons of infos
\* Goroutine i files in this step: it leaves the section in which it
\* appends to infos.
Files(i) == i \in DOMAIN w' /\ w[i].said /\ ~w'[i].said /\ infos' # infos

\* C34: under every interleaving of the goroutines of the issue phase, an
\* entry appended to infos is filed under the reason that the appending
\* goroutine computed and is the description of its own candidate, never
\* the reason or the description that another goroutine wrote.
OwnReasonFiled ==
    [][ \A i \in DOMAIN w :
           Files(i) => infos' = [ infos EXCEPT ![OwnWhy(i)] = Append(@, OwnWhat(i)) ] ]_vars

\* ------------------------------------------- the source event of a PR
\* The last entry of the candidate list of the issue of PR worker i.
LastCandidate(i) == issues[work[i].iid][Len(issues[work[i].iid])]

\* The PR bundle that goroutine i commits in this step carries the event
\* of candidate c: its real event id, its type, its date, its issue.
BundleFrom(i, c) ==
    \A r \in store'.prs \ store.prs :
       /\ r.event_id = ArtificialEventID(c)
       /\ r.dup_created_at = c.CreatedAt
       /\ \E e \in store'.events :
             e.id = r.event_id /\ e.type = c.EventType /\ e.created_at = c.CreatedAt
       /\ \E pl \in store'.payloads :
             pl.event_id = r.event_id /\ pl.issue_id = c.GhIssue.ID

\* No entry of the candidate list of PR worker i is of a later second
\* than its last entry.
LatestSecond(i) ==
    \A k \in DOMAIN Ica(i) :
       ToYMDHMSDate(Ica(i)[k].CreatedAt) <= ToYMDHMSDate(LastCandidate(i).CreatedAt)

\* C35: for every PR of the batch the PR worker takes as its source event
\* (real event id, event type, date, issue object) the last entry of the
\* candidate list of the same issue id, which when not manual is the
\* retained candidate of the latest second, and it does so without failure
\* for every PR key of the batch, one whose issue id has no issue candidate
\* included.
SourceOfEveryPR ==
    [][ \A i \in DOMAIN w :
           /\ (phase = "prs" /\ w[i].pc = "probe" /\ w'[i].pc # "probe") =>
                 w'[i].pc # "aborted"
           /\ (phase = "prs" /\ w[i].pc = "commit" /\ w'[i].pc = "count") =>
                 /\ BundleFrom(i, LastCandidate(i))
                 /\ ~manual => LatestSecond(i) ]_vars

====
